---- MODULE Spec2Model ----
(***************************************************************************)
(* The staged publish pipeline of the ERC-7730 builder:                    *)
(*   Stage 1  handlePublishToWalrus      -> publishToWalrus      (content  *)
(*            store), src/app/review-submit/page.tsx, lib/publish-walrus.ts*)
(*   Stage 2  handlePublishToBlockchain  -> publishToBlockchain  (wallet)  *)
(*   Stage 3  handlePublishToKnowledgeGraph -> publishToKnowledgeGraph     *)
(*            (src/app/review/reviewJson.tsx, lib/publish-kg)              *)
(* The React state of the two components is the state of the model; every  *)
(* await of a handler is a point where other events interleave.            *)
(***************************************************************************)
EXTENDS Integers, Sequences, FiniteSets, TLC

\* ------------------------------------------------------------------ bounds
\* Total number of stage invocations (button clicks that start a handler).
MaxClicks == 3

\* ------------------------------------------------------------- JS values
Undefined == "undefined"

\* JS truthiness of a string-or-undefined value: undefined and "" are falsy.
Truthy(s) == s # Undefined /\ s # ""

\* ------------------------------------------------------------- documents
\* finalErc7730 of the store: the owner name and the number of deployments in
\* context.contract.deployments are what the handlers read.
Docs == [owner : {"Acme"}, deployments : {0, 1}]

\* JSON.stringify(erc7730, null, 2): a deterministic text of the document.
JSONstringify(d) ==
    IF d.deployments = 0
    THEN "{owner:" \o d.owner \o ",deployments:[]}"
    ELSE "{owner:" \o d.owner \o ",deployments:[{chainId:1,address:0xabc}]}"

\* ------------------------------------------------- content store (Walrus)
\* Content addressing of the external store: the identifier is a function of
\* the bytes submitted.
BlobIdOf(data) == "blob(" \o data \o ")"

\* Blob identifiers a response body may carry: the right one, a missing one
\* and an empty one.
ResponseBlobIds(data) == {BlobIdOf(data), Undefined, ""}

\* A JSON body of the store: parsable or not; error is the body's `error`
\* member; nc = newlyCreated present, ncBO = newlyCreated.blobObject present,
\* ac = alreadyCertified present, acEvent = alreadyCertified.event present.
NoBody ==
    [parsable |-> FALSE, error |-> Undefined,
     nc |-> FALSE, ncBO |-> FALSE, ncBlobId |-> Undefined,
     registeredEpoch |-> Undefined, size |-> Undefined, cost |-> Undefined,
     ac |-> FALSE, acBlobId |-> Undefined, endEpoch |-> Undefined,
     acEvent |-> FALSE, txDigest |-> Undefined]

EmptyBody == [NoBody EXCEPT !.parsable = TRUE]

ErrorBody == [EmptyBody EXCEPT !.error = "store is full"]

NewlyCreatedBody(b) ==
    [EmptyBody EXCEPT !.nc = TRUE, !.ncBO = TRUE, !.ncBlobId = b,
                      !.registeredEpoch = "epoch 7", !.size = "412",
                      !.cost = "1100"]

AlreadyCertifiedBody(b, ev) ==
    [EmptyBody EXCEPT !.ac = TRUE, !.acBlobId = b, !.endEpoch = "epoch 9",
                      !.acEvent = ev,
                      !.txDigest = IF ev THEN "digest 5" ELSE Undefined]

Bodies(data) ==
    {NoBody, EmptyBody, ErrorBody, [EmptyBody EXCEPT !.nc = TRUE]}
      \cup {NewlyCreatedBody(b) : b \in ResponseBlobIds(data)}
      \cup {AlreadyCertifiedBody(b, TRUE) : b \in ResponseBlobIds(data)}
      \cup {AlreadyCertifiedBody(BlobIdOf(data), FALSE)}
      \cup {[NewlyCreatedBody(BlobIdOf(data)) EXCEPT
                !.ac = TRUE, !.acBlobId = BlobIdOf(data),
                !.endEpoch = "epoch 9", !.acEvent = TRUE,
                !.txDigest = "digest 5"]}

\* What fetch() settles with: a rejection (a TypeError that mentions fetch, or
\* another error), or a response with a status and a body.
WalrusResponses(data) ==
    {[kind |-> "reject", fetchTypeError |-> b, ok |-> FALSE, body |-> NoBody]
        : b \in BOOLEAN}
      \cup {[kind |-> "response", fetchTypeError |-> FALSE, ok |-> FALSE,
             body |-> b] : b \in {NoBody, EmptyBody, ErrorBody}}
      \cup {[kind |-> "response", fetchTypeError |-> FALSE, ok |-> TRUE,
             body |-> b] : b \in Bodies(data)}

\* The answer of a store that honours content addressing: already certified
\* when it retains the bytes, newly created otherwise.
StoreResponse(retained, data) ==
    [kind |-> "response", fetchTypeError |-> FALSE, ok |-> TRUE,
     body |-> IF data \in retained
              THEN AlreadyCertifiedBody(BlobIdOf(data), TRUE)
              ELSE NewlyCreatedBody(BlobIdOf(data))]

\* ------------------------------------------------------- publishToWalrus
\* The result of publishToWalrus: returned (ok) or thrown (message).
WalrusFailure(msg) ==
    [ok |-> FALSE, blobId |-> Undefined, registeredEpoch |-> Undefined,
     size |-> Undefined, cost |-> Undefined, alreadyCertified |-> Undefined,
     endEpoch |-> Undefined, txDigest |-> Undefined, message |-> msg]

FailedToPublishToWalrus(msg) ==
    WalrusFailure("Failed to publish to Walrus: " \o msg)

UnexpectedStructure ==
    "Invalid response format from Walrus: unexpected response structure"

WalrusSuccess(blobId, registeredEpoch, size, cost, alreadyCertified, endEpoch, txDigest) ==
    [ok |-> TRUE, blobId |-> blobId, registeredEpoch |-> registeredEpoch,
     size |-> size, cost |-> cost, alreadyCertified |-> alreadyCertified,
     endEpoch |-> endEpoch, txDigest |-> txDigest, message |-> Undefined]

\* A slip of WalrusResultFromBody: a body of neither shape is returned as a
\* result without an identifier instead of being thrown.
WalrusResultFromBodySilentNull(body) ==
    IF body.nc /\ body.ncBO
    THEN WalrusSuccess(body.ncBlobId, body.registeredEpoch, body.size,
                       body.cost, "false", Undefined, Undefined)
    ELSE IF body.ac
    THEN IF ~body.acEvent
         THEN FailedToPublishToWalrus("Cannot read properties of undefined (reading 'txDigest')")
         ELSE WalrusSuccess(body.acBlobId, Undefined, Undefined, Undefined,
                            "true", body.endEpoch, body.txDigest)
    ELSE WalrusSuccess(Undefined, Undefined, Undefined, Undefined, "false",
                       Undefined, Undefined)

\* A slip of WalrusResultFromBody: only the newly-created shape is accepted.
WalrusResultFromBodyCertifiedIsError(body) ==
    IF body.nc /\ body.ncBO
    THEN WalrusSuccess(body.ncBlobId, body.registeredEpoch, body.size,
                       body.cost, "false", Undefined, Undefined)
    ELSE FailedToPublishToWalrus(UnexpectedStructure)

\* A slip of WalrusResultFromBody: the already-certified branch forgets its
\* alreadyCertified flag.
WalrusResultFromBodyCertifiedAsNew(body) ==
    IF body.nc /\ body.ncBO
    THEN WalrusSuccess(body.ncBlobId, body.registeredEpoch, body.size,
                       body.cost, "false", Undefined, Undefined)
    ELSE IF body.ac
    THEN IF ~body.acEvent
         THEN FailedToPublishToWalrus("Cannot read properties of undefined (reading 'txDigest')")
         ELSE WalrusSuccess(body.acBlobId, Undefined, Undefined, Undefined,
                            "false", body.endEpoch, body.txDigest)
    ELSE FailedToPublishToWalrus(UnexpectedStructure)

\* The parsed body of a 2xx response: the newly-created shape, else the
\* already-certified shape (whose event.txDigest is read), else an error.
WalrusResultFromBody(body) ==
    IF body.nc /\ body.ncBO
    THEN WalrusSuccess(body.ncBlobId, body.registeredEpoch, body.size,
                       body.cost, "false", Undefined, Undefined)
    ELSE IF body.ac
    THEN IF ~body.acEvent
         THEN FailedToPublishToWalrus("Cannot read properties of undefined (reading 'txDigest')")
         ELSE WalrusSuccess(body.acBlobId, Undefined, Undefined, Undefined,
                            "true", body.endEpoch, body.txDigest)
    ELSE FailedToPublishToWalrus(UnexpectedStructure)

publishToWalrus(resp) ==
    IF resp.kind = "reject"
    THEN IF resp.fetchTypeError
         THEN WalrusFailure("Network error: Unable to connect to Walrus publisher. Please check the URL")
         ELSE FailedToPublishToWalrus("connection reset")
    ELSE IF ~resp.ok
    THEN FailedToPublishToWalrus(
             IF resp.body.parsable /\ Truthy(resp.body.error)
             THEN resp.body.error
             ELSE "HTTP 500: Internal Server Error")
    ELSE IF ~resp.body.parsable
    THEN FailedToPublishToWalrus("Unexpected token < in JSON at position 0")
    ELSE WalrusResultFromBody(resp.body)

\* ---------------------------------------------------------------- state
VARIABLES
    erc7730,                  \* finalErc7730 of the editing store
    env,                      \* NEXT_PUBLIC_CONTRACT_ADDRESS, NEXT_PUBLIC_CHAIN_ID
    store,                    \* payloads the content store retains
    walletChain,              \* the wallet's active chain id
    txs,                      \* transactions the wallet has sent, in order
    isPublishingToWalrus,     \* page.tsx:41
    walrusResult,             \* page.tsx:47
    walrusCalls,              \* outstanding publishToWalrus calls
    isPublishingToBlockchain, \* page.tsx:42
    blockchainResult,         \* page.tsx:58
    chainCalls,               \* outstanding publishToBlockchain calls
    isPublishing,             \* reviewJson.tsx:13
    publishResult,            \* reviewJson.tsx:14
    kgCalls,                  \* outstanding publishToKnowledgeGraph calls
    entities,                 \* entity ids the route has generated so far
    edits,                    \* edits published to the content network
    exchanges,                \* content references sent to the calldata endpoint
    kgTxs,                    \* transactions submitted with the signing key
    toast,                    \* the description of the last toast shown
    clicks,                   \* handler invocations so far
    isGeneratingGraph,        \* page.tsx:40
    knowledgeGraphData,       \* page.tsx:43
    builds,                   \* history: what each call of the builder did
    walrusLog,                \* history: what Stage 1 recorded for each answer
                              \* of a store that honoured content addressing
    last                      \* history: the step that led to this state

vars ==
    <<erc7730, env, store, walletChain, txs,
      isPublishingToWalrus, walrusResult, walrusCalls,
      isPublishingToBlockchain, blockchainResult, chainCalls,
      isPublishing, publishResult, kgCalls, entities, edits, exchanges, kgTxs,
      isGeneratingGraph, knowledgeGraphData, builds,
      toast, clicks, walrusLog, last>>

graphVars == <<isGeneratingGraph, knowledgeGraphData, builds>>

walrusVars == <<store, isPublishingToWalrus, walrusResult, walrusCalls, walrusLog>>

chainVars ==
    <<walletChain, txs, isPublishingToBlockchain, blockchainResult, chainCalls>>

kgServerVars == <<entities, edits, exchanges, kgTxs>>

kgVars == <<isPublishing, publishResult, kgCalls, entities, edits, exchanges, kgTxs>>

\* What the publish handlers read and write, the document and the toast apart.
pipelineVars ==
    <<env, store, walletChain, txs, isPublishingToWalrus, walrusResult,
      walrusCalls, isPublishingToBlockchain, blockchainResult, chainCalls,
      isPublishing, publishResult, kgCalls, entities, edits, exchanges, kgTxs,
      clicks, walrusLog, last>>

\* useState(null) of walrusResult, and the two objects setWalrusResult is
\* given.
NullWalrusResult ==
    [isNull |-> TRUE, success |-> FALSE, blobId |-> Undefined,
     registeredEpoch |-> Undefined, size |-> Undefined, cost |-> Undefined,
     alreadyCertified |-> Undefined, endEpoch |-> Undefined,
     txDigest |-> Undefined, error |-> Undefined]

WalrusResultOf(out) ==
    IF out.ok
    THEN [isNull |-> FALSE, success |-> TRUE, blobId |-> out.blobId,
          registeredEpoch |-> out.registeredEpoch, size |-> out.size,
          cost |-> out.cost, alreadyCertified |-> out.alreadyCertified,
          endEpoch |-> out.endEpoch, txDigest |-> out.txDigest,
          error |-> Undefined]
    ELSE [NullWalrusResult EXCEPT !.isNull = FALSE, !.error = out.message]

\* The toast of handlePublishToWalrus.
WalrusToast(out) ==
    IF out.ok
    THEN IF out.alreadyCertified = "true"
         THEN "JSON already published to Walrus"
         ELSE "JSON published to Walrus"
    ELSE "Failed to publish to Walrus: " \o out.message

\* A slip of WalrusButtonDisabled: the button stays enabled while publishing.
WalrusButtonNeverDisabled == FALSE

\* disabled={isPublishingToWalrus} of the Publish to Walrus button.
WalrusButtonDisabled == isPublishingToWalrus

NoInput == [kind |-> "none"]

Remove(seq, i) == SubSeq(seq, 1, i - 1) \o SubSeq(seq, i + 1, Len(seq))

\* handlePublishToWalrus up to its await: the flag is set, the previous
\* result is cleared and the serialized document is put to the store.
ClickPublishToWalrus ==
    /\ ~WalrusButtonDisabled
    /\ clicks < MaxClicks
    /\ clicks' = clicks + 1
    /\ isPublishingToWalrus' = TRUE
    /\ walrusResult' = NullWalrusResult
    /\ walrusCalls' = Append(walrusCalls, [data |-> JSONstringify(erc7730)])
    /\ last' = [op |-> "ClickPublishToWalrus", input |-> NoInput]
    /\ UNCHANGED <<graphVars, erc7730, env, store, walrusLog, toast, chainVars, kgVars>>

\* The fetch of call i settles with resp; publishToWalrus returns or throws
\* and handlePublishToWalrus records the result, toasts and clears the flag.
WalrusReturn(i, resp) ==
    LET data == walrusCalls[i].data
        honoured == resp = StoreResponse(store, data)
        out == publishToWalrus(resp)
        res == WalrusResultOf(out)
    IN  /\ walrusCalls' = Remove(walrusCalls, i)
        /\ store' = IF honoured THEN store \cup {data} ELSE store
        /\ walrusResult' = res
        /\ toast' = WalrusToast(out)
        /\ isPublishingToWalrus' = FALSE
        /\ walrusLog' =
             IF honoured
             THEN Append(walrusLog,
                         [data |-> data, success |-> res.success,
                          blobId |-> res.blobId,
                          alreadyCertified |-> res.alreadyCertified])
             ELSE walrusLog
        /\ last' = [op |-> "WalrusReturn", input |-> resp]
        /\ UNCHANGED <<graphVars, erc7730, env, clicks, chainVars, kgVars>>

WalrusSettles ==
    \E i \in 1..Len(walrusCalls) :
        \E resp \in WalrusResponses(walrusCalls[i].data) : WalrusReturn(i, resp)

\* ------------------------------------------------- publishToBlockchain
\* env.NEXT_PUBLIC_CONTRACT_ADDRESS and env.NEXT_PUBLIC_CHAIN_ID: complete, or
\* with one of the three defects publishToBlockchain checks for.
Configs ==
    {[contractAddress |-> "0xC0", chainId |-> "10"],
     [contractAddress |-> Undefined, chainId |-> "10"],
     [contractAddress |-> "0xC0", chainId |-> Undefined],
     [contractAddress |-> "0xC0", chainId |-> "abc"]}

WalletChains == {1, 10}

\* parseInt(chainId, 10) on the configured texts; NaN for a text with no
\* leading digits.
NaN == -1

ParseInt(s) == IF s = "10" THEN 10 ELSE IF s = "1" THEN 1 ELSE NaN

\* `0x${n.toString(16)}`
HexOf(n) == IF n = 10 THEN "0xa" ELSE IF n = 1 THEN "0x1" ELSE "0xNaN"

\* The three configuration checks made before the try block: the message
\* thrown, or Undefined when the configuration passes.
ConfigError(e) ==
    IF ~Truthy(e.contractAddress)
    THEN "Contract address not configured. Set NEXT_PUBLIC_CONTRACT_ADDRESS environment variable."
    ELSE IF ~Truthy(e.chainId)
    THEN "Chain ID not configured. Set NEXT_PUBLIC_CHAIN_ID environment variable."
    ELSE IF ParseInt(e.chainId) = NaN
    THEN "Invalid chain ID in environment variable."
    ELSE Undefined

\* The wallet's "chain not added" error code.
ChainNotAdded == 4902

\* What a wallet request settles with: value is the accounts list, the chain
\* id or the transaction hash of a fulfilled request; code and isError
\* (instanceof Error) describe the error of a rejected one.
Fulfilled(v) == [kind |-> "ok", value |-> v, code |-> 0, isError |-> FALSE]

Rejected(codes) ==
    {[kind |-> "reject", value |-> Undefined, code |-> c, isError |-> b]
        : c \in codes, b \in BOOLEAN}

WalletMessage(code) ==
    IF code = ChainNotAdded
    THEN "Unrecognized chain ID. Try adding the chain first."
    ELSE "User rejected the request."

\* The catch of publishToBlockchain: the message of the Error it rethrows.
FailedToPublishToBlockchain(msg) == "Failed to publish to blockchain: " \o msg

ThrownMessage(err) ==
    FailedToPublishToBlockchain(
        IF err.isError THEN WalletMessage(err.code) ELSE "Unknown error")

NetworkNotConfigured(chainIdNum) ==
    FailedToPublishToBlockchain(
        "Network with chainId " \o ToString(chainIdNum)
            \o " is not configured. Please add it to MetaMask.")

\* A slip of SwitchErrorMessage: every switch error is rethrown as it is.
SwitchErrorRethrown(err, chainIdNum) == ThrownMessage(err)

\* The catch around wallet_switchEthereumChain: code 4902 becomes the
\* "not configured" error, any other error is rethrown as it is.
SwitchErrorMessage(err, chainIdNum) ==
    IF err.code = ChainNotAdded
    THEN NetworkNotConfigured(chainIdNum)
    ELSE ThrownMessage(err)

\* useState(null) of blockchainResult and the objects setBlockchainResult is
\* given.
NullBlockchainResult ==
    [isNull |-> TRUE, success |-> FALSE, txHash |-> Undefined,
     error |-> Undefined]

BlockchainSuccess(txHash) ==
    [isNull |-> FALSE, success |-> TRUE, txHash |-> txHash,
     error |-> Undefined]

BlockchainFailure(msg) ==
    [isNull |-> FALSE, success |-> FALSE, txHash |-> Undefined,
     error |-> msg]

\* disabled={isPublishingToBlockchain || !walrusResult?.success}
BlockchainButtonDisabled ==
    isPublishingToBlockchain \/ ~walrusResult.success

\* A slip of HasContentIdentifier: only the success flag is looked at.
HasContentIdentifierSuccessOnly(wr) == wr.success

\* The guard of handlePublishToBlockchain: Stage 1 has a content identifier.
HasContentIdentifier(wr) == wr.success /\ Truthy(wr.blobId)

PublishToWalrusFirst == "Please publish to Walrus first to get a blob ID"

\* A slip of ChainFails: no finally block, the flag stays set.
ChainFailsFlagKept(i, msg) ==
    /\ chainCalls' = Remove(chainCalls, i)
    /\ blockchainResult' = BlockchainFailure(msg)
    /\ toast' = "Failed to publish to blockchain: " \o msg
    /\ isPublishingToBlockchain' = TRUE

\* The catch and finally of handlePublishToBlockchain for call i.
ChainFails(i, msg) ==
    /\ chainCalls' = Remove(chainCalls, i)
    /\ blockchainResult' = BlockchainFailure(msg)
    /\ toast' = "Failed to publish to blockchain: " \o msg
    /\ isPublishingToBlockchain' = FALSE

\* Call i goes on to its next wallet request.
ChainAwaits(i, pc) ==
    /\ chainCalls' = [chainCalls EXCEPT ![i].pc = pc]
    /\ UNCHANGED <<blockchainResult, toast, isPublishingToBlockchain>>

\* new Web3(window.ethereum), the contract, encodeABI and sendTransaction:
\* without window.Web3 the constructor call throws.
ChainSends(i, hasWeb3) ==
    IF hasWeb3
    THEN ChainAwaits(i, "send")
    ELSE ChainFails(i, FailedToPublishToBlockchain("window.Web3 is not a constructor"))

\* handlePublishToBlockchain up to the first await of publishToBlockchain.
ClickPublishToBlockchain(hasEthereum) ==
    /\ ~BlockchainButtonDisabled
    /\ clicks < MaxClicks
    /\ clicks' = clicks + 1
    /\ last' = [op |-> "ClickPublishToBlockchain", input |-> NoInput]
    /\ IF ~HasContentIdentifier(walrusResult)
       THEN /\ toast' = PublishToWalrusFirst
            /\ UNCHANGED <<isPublishingToBlockchain, blockchainResult, chainCalls>>
       ELSE IF ConfigError(env) # Undefined
       THEN /\ blockchainResult' = BlockchainFailure(ConfigError(env))
            /\ toast' = "Failed to publish to blockchain: " \o ConfigError(env)
            /\ UNCHANGED <<isPublishingToBlockchain, chainCalls>>
       ELSE IF ~hasEthereum
       THEN /\ blockchainResult' = BlockchainFailure(
                   FailedToPublishToBlockchain(
                       "MetaMask is not installed. Please install MetaMask to continue."))
            /\ toast' = "Failed to publish to blockchain: " \o blockchainResult'.error
            /\ UNCHANGED <<isPublishingToBlockchain, chainCalls>>
       ELSE /\ isPublishingToBlockchain' = TRUE
            /\ blockchainResult' = NullBlockchainResult
            /\ chainCalls' = Append(chainCalls,
                                    [blobId |-> walrusResult.blobId, pc |-> "accounts"])
            /\ UNCHANGED toast
    /\ UNCHANGED <<graphVars, erc7730, env, walletChain, txs, walrusVars, kgVars>>

\* eth_requestAccounts settles.
ChainAccountsReturn(i, r) ==
    /\ chainCalls[i].pc = "accounts"
    /\ IF r.kind = "reject"
       THEN ChainFails(i, ThrownMessage(r))
       ELSE IF r.value \in {"null", "[]"}
       THEN ChainFails(i, FailedToPublishToBlockchain(
                              "No accounts found. Please connect MetaMask."))
       ELSE ChainAwaits(i, "chainId")
    /\ last' = [op |-> "ChainAccountsReturn", input |-> r]
    /\ UNCHANGED <<graphVars, erc7730, env, walletChain, txs, clicks, walrusVars, kgVars>>

\* eth_chainId settles: on the target chain the transaction is sent, on
\* another chain the wallet is asked to switch.
ChainIdReturn(i, r, hasWeb3) ==
    /\ chainCalls[i].pc = "chainId"
    /\ IF r.kind = "reject"
       THEN ChainFails(i, ThrownMessage(r))
       ELSE IF r.value # HexOf(ParseInt(env.chainId))
       THEN ChainAwaits(i, "switch")
       ELSE ChainSends(i, hasWeb3)
    /\ last' = [op |-> "ChainIdReturn", input |-> r]
    /\ UNCHANGED <<graphVars, erc7730, env, walletChain, txs, clicks, walrusVars, kgVars>>

\* wallet_switchEthereumChain settles: the wallet that fulfils the request is
\* on the target chain.
ChainSwitchReturn(i, r, hasWeb3) ==
    /\ chainCalls[i].pc = "switch"
    /\ IF r.kind = "reject"
       THEN /\ ChainFails(i, SwitchErrorMessage(r, ParseInt(env.chainId)))
            /\ UNCHANGED walletChain
       ELSE /\ ChainSends(i, hasWeb3)
            /\ walletChain' = ParseInt(env.chainId)
    /\ last' = [op |-> "ChainSwitchReturn", input |-> r]
    /\ UNCHANGED <<graphVars, erc7730, env, txs, clicks, walrusVars, kgVars>>

\* web3.eth.sendTransaction settles: a fulfilled request is a transaction
\* sent on the wallet's active chain.
ChainSendReturn(i, r) ==
    /\ chainCalls[i].pc = "send"
    /\ IF r.kind = "reject"
       THEN /\ ChainFails(i, ThrownMessage(r))
            /\ UNCHANGED txs
       ELSE /\ chainCalls' = Remove(chainCalls, i)
            /\ txs' = Append(txs, [blobId |-> chainCalls[i].blobId,
                                     chain |-> walletChain])
            /\ blockchainResult' = BlockchainSuccess(r.value)
            /\ toast' = "Metadata published to blockchain"
            /\ isPublishingToBlockchain' = FALSE
    /\ last' = [op |-> "ChainSendReturn", input |-> r]
    /\ UNCHANGED <<graphVars, erc7730, env, walletChain, clicks, walrusVars, kgVars>>

\* The user changes the active network in the wallet.
UserSwitchesNetwork ==
    /\ \E c \in WalletChains \ {walletChain} : walletChain' = c
    /\ last' = [op |-> "UserSwitchesNetwork", input |-> NoInput]
    /\ UNCHANGED <<graphVars, erc7730, env, txs, isPublishingToBlockchain, blockchainResult,
                   chainCalls, toast, clicks, walrusVars, kgVars>>

ChainSettles ==
    \E i \in 1..Len(chainCalls) :
        \/ \E r \in Rejected({4001}) \cup {Fulfilled(v) : v \in {"null", "[]", "[0xA11CE]"}} :
              ChainAccountsReturn(i, r)
        \/ \E r \in Rejected({4001}) \cup {Fulfilled(HexOf(walletChain))},
              hasWeb3 \in BOOLEAN :
              ChainIdReturn(i, r, hasWeb3)
        \/ \E r \in Rejected({ChainNotAdded, 4001}) \cup {Fulfilled("null")},
              hasWeb3 \in BOOLEAN :
              ChainSwitchReturn(i, r, hasWeb3)
        \/ \E r \in Rejected({4001}) \cup {Fulfilled(h) : h \in {"0xfeed", Undefined}} :
              ChainSendReturn(i, r)

\* --------------------------------------------- publishToKnowledgeGraph
\* What the fetch of /api/publish-kg settles with: a rejection, or a response
\* with its status, its ok flag and its JSON body (error, or entityId and
\* txHash).
KgResponse(kind, status, parsable, error, entityId, txHash) ==
    [kind |-> kind, status |-> status, ok |-> (status = 200),
     parsable |-> parsable, error |-> error,
     entityId |-> entityId, txHash |-> txHash]

\* NextResponse.json({ error }, { status }) of the route.
RouteError(status, msg) ==
    KgResponse("response", status, TRUE, msg, Undefined, Undefined)

\* NextResponse.json(publishResult) of the route.
RouteSuccess(entityId, txHash) ==
    KgResponse("response", 200, TRUE, Undefined, entityId, txHash)

\* The fetch does not deliver the route's answer: the request or the answer is
\* lost, or a gateway answers with a page that is not JSON.
KgTransportFailures ==
    {KgResponse("reject", 0, FALSE, Undefined, Undefined, Undefined),
     KgResponse("response", 502, FALSE, Undefined, Undefined, Undefined)}

\* The body the client posts: the first deployment's address and chain id,
\* the owner as contract name and the document.
KgRequestOf(doc) ==
    [contractAddress |-> IF doc.deployments > 0 THEN "0xabc" ELSE Undefined,
     chainId |-> IF doc.deployments > 0 THEN "1" ELSE Undefined,
     contractName |-> doc.owner,
     erc7730Data |-> JSONstringify(doc)]

\* !contractAddress || !chainId || !contractName || !erc7730Data
MissingRequiredFields(req) ==
    \/ ~Truthy(req.contractAddress)
    \/ ~Truthy(req.chainId)
    \/ ~Truthy(req.contractName)
    \/ ~Truthy(req.erc7730Data)

\* ---- the signing key
\* The number of hexadecimal characters of a key.
KeyLength == 64

HexCharacters ==
    {"0", "1", "2", "3", "4", "5", "6", "7", "8", "9",
     "a", "b", "c", "d", "e", "f", "A", "B", "C", "D", "E", "F"}

\* process.env.PRIVATE_KEY: unset, or a text given as its characters.
UnsetKey == [present |-> FALSE, chars |-> <<>>]

KeyOf(chars) == [present |-> TRUE, chars |-> chars]

Repeat(c, n) == [i \in 1..n |-> c]

Prefix0x == <<"0", "x">>

\* The keys an operator may configure: none, the empty text, well-formed keys
\* with and without prefix and in either case, and keys that are too short,
\* too long, not hexadecimal, prefixed twice, or prefixed with "0X".
Keys ==
    {UnsetKey,
     KeyOf(<<>>),
     KeyOf(Repeat("a", KeyLength)),
     KeyOf(Prefix0x \o Repeat("B", KeyLength)),
     KeyOf(Repeat("0", KeyLength)),
     KeyOf(Repeat("a", KeyLength - 1)),
     KeyOf(Repeat("a", KeyLength + 1)),
     KeyOf(Prefix0x \o Repeat("a", KeyLength - 2)),
     KeyOf(Repeat("a", KeyLength - 1) \o <<"g">>),
     KeyOf(Prefix0x \o Prefix0x \o Repeat("a", KeyLength - 2)),
     KeyOf(<<"0", "X">> \o Repeat("a", KeyLength))}

\* privateKey.startsWith('0x')
StartsWith0x(chars) ==
    Len(chars) >= 2 /\ chars[1] = "0" /\ chars[2] = "x"

\* privateKey.startsWith('0x') ? privateKey : `0x${privateKey}`
FormatPrivateKey(chars) ==
    IF StartsWith0x(chars) THEN chars ELSE Prefix0x \o chars

\* A slip of MatchesKeyPattern: the length of the key is not looked at.
MatchesKeyPatternAnyLength(chars) ==
    /\ Len(chars) >= 2
    /\ chars[1] = "0" /\ chars[2] = "x"
    /\ \A i \in 3..Len(chars) : chars[i] \in HexCharacters

\* /^0x[a-fA-F0-9]{64}$/.test(formattedPrivateKey)
MatchesKeyPattern(chars) ==
    /\ Len(chars) = 2 + KeyLength
    /\ chars[1] = "0" /\ chars[2] = "x"
    /\ \A i \in 3..Len(chars) : chars[i] \in HexCharacters

PrivateKeyRequired ==
    "Private key required. Set PRIVATE_KEY environment variable."

InvalidPrivateKeyFormat ==
    "Invalid private key format. Must be a 64-character hex string."

\* The two checks of the key: the error answered, or Undefined for a key that
\* passes.
KeyError(key) ==
    IF ~key.present \/ key.chars = <<>>
    THEN PrivateKeyRequired
    ELSE IF ~MatchesKeyPattern(FormatPrivateKey(key.chars))
    THEN InvalidPrivateKeyFormat
    ELSE Undefined

\* privateKeyToAccount throws for a key that is no scalar of the curve; of
\* the keys above that is the zero key.
AccountError(key) ==
    IF \A i \in 3..Len(FormatPrivateKey(key.chars)) :
           FormatPrivateKey(key.chars)[i] = "0"
    THEN "Private key must be a valid secp256k1 scalar"
    ELSE Undefined

\* The catch of the route: the 500 answer for a thrown error.
RouteCatch(msg) ==
    RouteError(500, "Failed to publish to Knowledge Graph: " \o msg)

\* ---- the client
KgFailure(msg) ==
    [ok |-> FALSE, entityId |-> Undefined, txHash |-> Undefined,
     message |-> "Failed to publish to Knowledge Graph: " \o msg]

publishToKnowledgeGraph(resp) ==
    IF resp.kind = "reject"
    THEN KgFailure("fetch failed")
    ELSE IF ~resp.parsable
    THEN KgFailure("Unexpected end of JSON input")
    ELSE IF ~resp.ok
    THEN KgFailure(IF Truthy(resp.error) THEN resp.error
                   ELSE "Failed to publish to Knowledge Graph")
    ELSE [ok |-> TRUE, entityId |-> resp.entityId, txHash |-> resp.txHash,
          message |-> Undefined]

\* useState(null) of publishResult and the objects setPublishResult is given.
NullPublishResult ==
    [isNull |-> TRUE, success |-> FALSE, entityId |-> Undefined,
     txHash |-> Undefined, error |-> Undefined]

\* A slip of PublishResultOf: the catch block toasts but records nothing.
PublishResultOfUnrecorded(out) ==
    IF out.ok
    THEN [isNull |-> FALSE, success |-> TRUE, entityId |-> out.entityId,
          txHash |-> out.txHash, error |-> Undefined]
    ELSE [isNull |-> TRUE, success |-> FALSE, entityId |-> Undefined,
          txHash |-> Undefined, error |-> Undefined]

PublishResultOf(out) ==
    IF out.ok
    THEN [isNull |-> FALSE, success |-> TRUE, entityId |-> out.entityId,
          txHash |-> out.txHash, error |-> Undefined]
    ELSE [NullPublishResult EXCEPT !.isNull = FALSE, !.error = out.message]

\* disabled={isPublishing} of the Publish to Knowledge Graph button.
KnowledgeGraphButtonDisabled == isPublishing

\* The guard of handlePublishToKnowledgeGraph: the document has a first
\* deployment.
HasDeployment(doc) == doc.deployments > 0

DeploymentMissing == "Contract deployment information is missing"

\* handlePublishToKnowledgeGraph up to its await: the request is posted.
ClickPublishToKnowledgeGraph ==
    /\ ~KnowledgeGraphButtonDisabled
    /\ clicks < MaxClicks
    /\ clicks' = clicks + 1
    /\ last' = [op |-> "ClickPublishToKnowledgeGraph", input |-> NoInput]
    /\ IF ~HasDeployment(erc7730)
       THEN /\ toast' = DeploymentMissing
            /\ UNCHANGED <<isPublishing, publishResult, kgCalls>>
       ELSE /\ isPublishing' = TRUE
            /\ publishResult' = NullPublishResult
            /\ kgCalls' = Append(kgCalls,
                                 [request |-> KgRequestOf(erc7730),
                                  pc |-> "request", cid |-> Undefined,
                                  entityId |-> Undefined,
                                  response |-> NoInput])
            /\ UNCHANGED toast
    /\ UNCHANGED <<graphVars, erc7730, env, walrusVars, chainVars, kgServerVars>>

\* ---- the route POST /api/publish-kg
\* Request i is answered by the route.
RouteResponds(i, resp) ==
    kgCalls' = [kgCalls EXCEPT ![i].pc = "respond", ![i].response = resp]

\* The route up to its first external call: the fields of the body and the
\* key are checked, the account is derived, the operations of the edit are
\* built and the edit is handed to Ipfs.publishEdit.
RouteValidates(i, key) ==
    /\ kgCalls[i].pc = "request"
    /\ IF MissingRequiredFields(kgCalls[i].request)
       THEN RouteResponds(i, RouteError(400, "Missing required fields"))
       ELSE IF KeyError(key) # Undefined
       THEN RouteResponds(i, RouteError(400, KeyError(key)))
       ELSE IF AccountError(key) # Undefined
       THEN RouteResponds(i, RouteCatch(AccountError(key)))
       ELSE kgCalls' = [kgCalls EXCEPT
                           ![i].pc = "publishEdit",
                           ![i].entityId = "entity " \o ToString(entities + 1)]
    /\ entities' = IF kgCalls'[i].pc = "publishEdit"
                   THEN entities + 1 ELSE entities
    /\ last' = [op |-> "RouteValidates", input |-> key]
    /\ UNCHANGED <<graphVars, erc7730, env, toast, clicks, walrusVars, chainVars,
                   isPublishing, publishResult, edits, exchanges, kgTxs>>

\* Ipfs.publishEdit settles: a published edit has a content reference of its
\* own, with which the calldata is requested.
RoutePublishEditReturn(i, ok) ==
    /\ kgCalls[i].pc = "publishEdit"
    /\ IF ok
       THEN LET cid == "cid " \o ToString(Len(edits) + 1)
            IN  /\ edits' = Append(edits,
                                   [cid |-> cid,
                                    entityId |-> kgCalls[i].entityId,
                                    data |-> kgCalls[i].request.erc7730Data])
                /\ exchanges' = Append(exchanges, cid)
                /\ kgCalls' = [kgCalls EXCEPT ![i].pc = "calldata",
                                              ![i].cid = cid]
       ELSE /\ RouteResponds(i, RouteCatch("Failed to upload to IPFS"))
            /\ UNCHANGED <<edits, exchanges>>
    /\ last' = [op |-> "RoutePublishEditReturn", input |-> [ok |-> ok]]
    /\ UNCHANGED <<graphVars, erc7730, env, toast, clicks, walrusVars, chainVars,
                   isPublishing, publishResult, entities, kgTxs>>

\* What the fetch of the calldata endpoint settles with.
CalldataResponses ==
    {[kind |-> "reject", ok |-> FALSE, parsable |-> FALSE],
     [kind |-> "response", ok |-> FALSE, parsable |-> TRUE],
     [kind |-> "response", ok |-> TRUE, parsable |-> FALSE],
     [kind |-> "response", ok |-> TRUE, parsable |-> TRUE]}

\* The calldata exchange settles: with { to, data } the transaction is handed
\* to walletClient.sendTransaction.
RouteCalldataReturn(i, r) ==
    /\ kgCalls[i].pc = "calldata"
    /\ IF r.kind = "reject"
       THEN RouteResponds(i, RouteCatch("fetch failed"))
       ELSE IF ~r.ok
       THEN RouteResponds(i, RouteCatch(
                "Failed to get calldata: 500 Internal Server Error"))
       ELSE IF ~r.parsable
       THEN RouteResponds(i, RouteCatch("Unexpected end of JSON input"))
       ELSE kgCalls' = [kgCalls EXCEPT ![i].pc = "send"]
    /\ last' = [op |-> "RouteCalldataReturn", input |-> r]
    /\ UNCHANGED <<graphVars, erc7730, env, toast, clicks, walrusVars, chainVars,
                   isPublishing, publishResult, kgServerVars>>

\* walletClient.sendTransaction settles: a sent transaction carries the
\* calldata of the edit's content reference.
RouteSendReturn(i, ok) ==
    /\ kgCalls[i].pc = "send"
    /\ IF ok
       THEN LET txHash == "0xbeef" \o ToString(Len(kgTxs) + 1)
            IN  /\ kgTxs' = Append(kgTxs, [cid |-> kgCalls[i].cid,
                                            txHash |-> txHash])
                /\ RouteResponds(i, RouteSuccess(kgCalls[i].entityId, txHash))
       ELSE /\ RouteResponds(i, RouteCatch("insufficient funds for gas"))
            /\ UNCHANGED kgTxs
    /\ last' = [op |-> "RouteSendReturn", input |-> [ok |-> ok]]
    /\ UNCHANGED <<graphVars, erc7730, env, toast, clicks, walrusVars, chainVars,
                   isPublishing, publishResult, entities, edits, exchanges>>

RouteSteps ==
    \E i \in 1..Len(kgCalls) :
        \/ \E key \in Keys : RouteValidates(i, key)
        \/ \E ok \in BOOLEAN : RoutePublishEditReturn(i, ok)
        \/ \E r \in CalldataResponses : RouteCalldataReturn(i, r)
        \/ \E ok \in BOOLEAN : RouteSendReturn(i, ok)

\* ---- back in the client
\* What the fetch of call c may settle with: the route's answer once it has
\* answered; a transport failure when the request has not reached the route
\* or when its answer is on the way.
KgDeliveries(c) ==
    IF c.pc = "respond" THEN {c.response} \cup KgTransportFailures
    ELSE IF c.pc = "request" THEN KgTransportFailures
    ELSE {}

\* The fetch of call i settles; publishToKnowledgeGraph returns or throws and
\* the handler records the result, toasts and clears the flag.
KnowledgeGraphReturn(i, resp) ==
    LET out == publishToKnowledgeGraph(resp)
    IN  /\ kgCalls' = Remove(kgCalls, i)
        /\ publishResult' = PublishResultOf(out)
        /\ toast' = IF out.ok THEN "Contract published to Knowledge Graph"
                    ELSE "Failed to publish: " \o out.message
        /\ isPublishing' = FALSE
        /\ last' = [op |-> "KnowledgeGraphReturn", input |-> resp]
        /\ UNCHANGED <<graphVars, erc7730, env, clicks, walrusVars, chainVars,
                       kgServerVars>>

KnowledgeGraphSettles ==
    \E i \in 1..Len(kgCalls) :
        \E resp \in KgDeliveries(kgCalls[i]) : KnowledgeGraphReturn(i, resp)

\* ------------------------------------------- values of the document (data: any)
\* A member of the document whose shape the builder does not take for
\* granted: undefined, null, a text, a number, a list or a map. A text is
\* given as its pieces, cut so that every marker the builder searches for
\* ("(", ".", "#.", "input", "output", "return", "address", "uint", ...) is a
\* run of whole pieces; the text itself is the pieces put together. A list
\* has its items, a map its entries [key, value] in insertion order.
JsUndefined == [kind |-> "undefined", pieces |-> <<>>, items |-> <<>>]

JsNull == [kind |-> "null", pieces |-> <<>>, items |-> <<>>]

JsString(pieces) == [kind |-> "string", pieces |-> pieces, items |-> <<>>]

JsNumber(n) == [kind |-> "number", pieces |-> <<ToString(n)>>, items |-> <<>>]

JsArray(items) == [kind |-> "array", pieces |-> <<>>, items |-> items]

JsObject(entries) == [kind |-> "object", pieces |-> <<>>, items |-> entries]

\* if (v), v || w: undefined, null, the empty text and 0 are falsy.
JsTruthy(v) ==
    CASE v.kind \in {"undefined", "null"} -> FALSE
      [] v.kind = "string" -> v.pieces # <<>>
      [] v.kind = "number" -> v.pieces # <<"0">>
      [] OTHER -> TRUE

\* v || w
JsOr(v, w) == IF JsTruthy(v) THEN v ELSE w

RECURSIVE Concat(_)
\* The text of a sequence of pieces.
Concat(pieces) ==
    IF pieces = <<>> THEN "" ELSE Head(pieces) \o Concat(Tail(pieces))

RECURSIVE Join(_, _)
\* texts.join(sep)
Join(texts, sep) ==
    IF texts = <<>> THEN ""
    ELSE IF Len(texts) = 1 THEN Head(texts)
    ELSE Head(texts) \o sep \o Join(Tail(texts), sep)

\* text.includes(marker), marker given as its pieces.
Includes(pieces, marker) ==
    \E i \in 1..(Len(pieces) - Len(marker) + 1) :
        SubSeq(pieces, i, i + Len(marker) - 1) = marker

\* The index of the first piece equal to sep, or 0.
FirstIndexOf(pieces, sep) ==
    IF \E i \in 1..Len(pieces) : pieces[i] = sep
    THEN CHOOSE i \in 1..Len(pieces) :
             pieces[i] = sep /\ \A j \in 1..(i - 1) : pieces[j] # sep
    ELSE 0

\* The index of the last piece equal to sep, or 0.
LastIndexOf(pieces, sep) ==
    IF \E i \in 1..Len(pieces) : pieces[i] = sep
    THEN CHOOSE i \in 1..Len(pieces) :
             pieces[i] = sep /\ \A j \in (i + 1)..Len(pieces) : pieces[j] # sep
    ELSE 0

\* text.split(sep)[0]
SplitFirst(pieces, sep) ==
    IF FirstIndexOf(pieces, sep) = 0 THEN pieces
    ELSE SubSeq(pieces, 1, FirstIndexOf(pieces, sep) - 1)

\* text.split(sep).pop()
SplitLast(pieces, sep) ==
    SubSeq(pieces, LastIndexOf(pieces, sep) + 1, Len(pieces))

\* v.length of a list, or of a text whose pieces are single characters;
\* undefined (here 0, which is as falsy) for anything else.
JsLength(v) ==
    CASE v.kind = "array" -> Len(v.items)
      [] v.kind = "string" -> Len(v.pieces)
      [] OTHER -> 0

\* ------------------------------------------------------- the document's parts
\* An entry of context.contract.abi.
AbiEntry(type, name, inputTypes, stateMutability, constant) ==
    [kind |-> "object", type |-> type, name |-> name,
     inputs |-> inputTypes, outputs |-> JsUndefined,
     stateMutability |-> stateMutability, constant |-> constant,
     payable |-> Undefined]

\* `abi: null` of a table row seeded from display.formats.
NullAbi ==
    [kind |-> "null", type |-> Undefined, name |-> Undefined,
     inputs |-> JsUndefined, outputs |-> JsUndefined,
     stateMutability |-> Undefined, constant |-> Undefined,
     payable |-> Undefined]

\* The inputs of an ABI entry: a list of { type }.
Inputs(types) == JsArray([i \in 1..Len(types) |-> [type |-> types[i]]])

balanceOf ==
    AbiEntry("function", "balanceOf", Inputs(<<"address">>), "view", Undefined)

transfer ==
    AbiEntry("function", "transfer", Inputs(<<"address", "uint256">>),
             "nonpayable", Undefined)

\* A function entry of an old compiler: no stateMutability, no inputs.
totalSupply ==
    AbiEntry("function", "totalSupply", JsUndefined, Undefined, "true")

\* A function of pure mutability, without parameters.
decimals ==
    AbiEntry("function", "decimals", Inputs(<<>>), "pure", Undefined)

TransferEvent ==
    AbiEntry("event", "Transfer", Inputs(<<"address", "address", "uint256">>),
             Undefined, Undefined)

\* A field of a display format.
Field(label, path, format) ==
    [label |-> label, path |-> path, format |-> format,
     input |-> Undefined, output |-> Undefined, direction |-> Undefined,
     required |-> Undefined, optional |-> Undefined]

ownerField ==
    Field("Owner", JsString(<<"#", ".", "owner">>), JsString(<<"address", "Name">>))

amountField ==
    Field(Undefined, JsString(<<"#", ".", "value", ".", "amount">>),
          JsString(<<"amount">>))

\* Fields out of shape: no path and no format, a number as path, a number as
\* format.
bareField == Field(Undefined, JsUndefined, JsUndefined)

numberPathField == Field("Count", JsNumber(3), JsString(<<"raw">>))

numberFormatField == Field("Count", JsString(<<"#", ".", "count">>), JsNumber(3))

\* Fields of a result: one told by its path, one by its output markers, one
\* that also denies being an input.
outputPathField ==
    Field("Returned", JsString(<<"output", ".", "balance">>), JsString(<<"amount">>))

markedOutputField ==
    [Field("Out", JsString(<<"result">>), JsString(<<"amount">>))
        EXCEPT !.output = "true", !.direction = "output"]

strictOutputField ==
    [Field("Strict", JsString(<<"result">>), JsString(<<"amount">>))
        EXCEPT !.input = "false", !.direction = "output"]

\* A value of display.formats: a format with its intent and fields; `display:
\* null` of a row seeded from the ABI; a character of a text met where a map
\* was expected.
Format(intent, fields) ==
    [kind |-> "object", intent |-> intent, fields |-> fields]

NullFormat == [kind |-> "null", intent |-> Undefined, fields |-> JsUndefined]

CharacterFormat ==
    [kind |-> "string", intent |-> Undefined, fields |-> JsUndefined]

\* display?.x: the format is an object.
FormatTruthy(f) == f.kind # "null"

\* An entry of a map.
Entry(key, value) == [key |-> key, value |-> value]

\* chainId and address of a deployment; the address as its characters.
Deployment(chainId, address) == [chainId |-> chainId, address |-> address]

mainnet == Deployment("1", JsString(<<"0", "x", "a", "b", "c">>))

\* The address of mainnet, deployed on another chain as well.
mainnetAddressOnOptimism == Deployment("10", mainnet.address)

optimism ==
    Deployment("10", JsString(<<"0", "x", "1", "2", "3", "4", "5", "6", "7", "8">>))

\* ------------------------------------------------------------ documents
\* The values of context.contract.abi.
AbiValues ==
    {JsUndefined,
     JsArray(<<>>),
     JsArray(<<TransferEvent>>),
     JsArray(<<balanceOf>>),
     JsArray(<<balanceOf, TransferEvent, transfer>>),
     JsArray(<<totalSupply, balanceOf, decimals>>),
     JsArray(<<balanceOf, balanceOf>>),
     JsString(<<"x">>),
     JsObject(<<>>)}

balanceOfKey == <<"balanceOf", "(", "address", ")">>

\* The same signature written with the name of the parameter.
balanceOfNamedKey == <<"balanceOf", "(", "address", " ", "owner", ")">>

transferKey == <<"transfer", "(", "address", ",", "uint256", ")">>

\* The values of a format's fields.
FieldsValues ==
    {JsUndefined,
     JsArray(<<>>),
     JsArray(<<ownerField>>),
     JsArray(<<ownerField, amountField>>),
     JsArray(<<bareField>>),
     JsArray(<<numberPathField>>),
     JsArray(<<numberFormatField>>),
     JsArray(<<outputPathField, markedOutputField, strictOutputField>>),
     JsString(<<"x", "y">>),
     JsObject(<<>>)}

\* The values of display.formats.
FormatsValues ==
    {JsUndefined, JsObject(<<>>), JsString(<<"x">>), JsNumber(7)}
      \cup {JsObject(<<Entry(balanceOfKey, Format("Balance", f))>>)
                : f \in FieldsValues}
      \cup {JsObject(<<Entry(transferKey, Format("Send", JsArray(<<ownerField, amountField>>))),
                       Entry(balanceOfKey, Format(Undefined, JsArray(<<ownerField>>)))>>),
            JsObject(<<Entry(<<"approve">>, Format("Approve", JsArray(<<amountField>>)))>>),
            JsObject(<<Entry(balanceOfNamedKey, Format("Balance", JsArray(<<ownerField>>)))>>),
            JsObject(<<Entry(balanceOfKey, Format("Balance", JsArray(<<ownerField>>))),
                       Entry(balanceOfNamedKey, Format("Balance of", JsUndefined))>>)}

\* The values of context.contract.deployments and of the top-level
\* deployments.
DeploymentsValues ==
    {JsUndefined, JsArray(<<>>), JsArray(<<mainnet>>),
     JsArray(<<mainnet, optimism>>), JsObject(<<>>), JsNumber(1),
     JsArray(<<mainnet, mainnetAddressOnOptimism>>)}

TopDeploymentsValues ==
    {JsUndefined, JsArray(<<mainnet>>), JsArray(<<optimism>>)}

\* The values of the top-level operations.
OperationsValues ==
    {JsUndefined,
     JsObject(<<Entry(balanceOfKey, Format("Balance", JsUndefined)),
                Entry(<<"burn">>, Format("Burn", JsUndefined))>>)}

\* The documents handed to the builder.
GraphDocs ==
    [owner : {"Acme", Undefined},
     name : {Undefined},
     contractName : {"Token"},
     topName : {"Registry", Undefined},
     abi : AbiValues,
     formats : FormatsValues,
     operations : OperationsValues,
     deployments : DeploymentsValues,
     topDeployments : TopDeploymentsValues]

\* ------------------------------------------- createKnowledgeGraphFromERC7730
\* The locals of the builder: nodes, links, nodeId and the operations table
\* (a Map: rows in insertion order, one per key); threw is set when a
\* statement raised a TypeError, which ends the call.
NewGraph ==
    [nodes |-> <<>>, links |-> <<>>, nodeId |-> 0, operations |-> <<>>,
     threw |-> FALSE]

Throw(g) == [g EXCEPT !.threw = TRUE]

\* `${prefix}-${nodeId++}`
NodeIdOf(prefix, g) == prefix \o "-" \o ToString(g.nodeId)

Node(id, label, type, group, details) ==
    [id |-> id, label |-> label, type |-> type, group |-> group,
     details |-> details, connections |-> 0]

\* nodes.push(node), after the node's id has taken nodeId++.
PushNode(g, node) ==
    [g EXCEPT !.nodes = Append(@, node), !.nodeId = @ + 1]

\* A slip of PushLink: the target's connection count is left as it was.
PushLinkSourceCounted(g, s, t, label, type) ==
    [g EXCEPT
        !.links = Append(@, [source |-> g.nodes[s].id, target |-> g.nodes[t].id,
                             label |-> label, strength |-> 1, type |-> type]),
        !.nodes = [@ EXCEPT ![s].connections = @ + 1]]

PushLinkReversed(g, s, t, label, type) ==
    [g EXCEPT
        !.links = Append(@, [source |-> g.nodes[t].id, target |-> g.nodes[s].id,
                             label |-> label, strength |-> 1, type |-> type]),
        !.nodes = [@ EXCEPT ![s].connections = @ + 1,
                            ![t].connections = @ + 1]]

\* links.push({ source, target, label, strength: 1, type }) between the nodes
\* at places s and t, and connections++ of both.
PushLink(g, s, t, label, type) ==
    [g EXCEPT
        !.links = Append(@, [source |-> g.nodes[s].id, target |-> g.nodes[t].id,
                             label |-> label, strength |-> 1, type |-> type]),
        !.nodes = [@ EXCEPT ![s].connections = @ + 1,
                            ![t].connections = @ + 1]]

\* data.metadata?.owner || data.metadata?.name || data.context?.contract?.name
\*   || data.name || "Contract"
contractName(data) ==
    IF Truthy(data.owner) THEN data.owner
    ELSE IF Truthy(data.name) THEN data.name
    ELSE IF Truthy(data.contractName) THEN data.contractName
    ELSE IF Truthy(data.topName) THEN data.topName
    ELSE "Contract"

\* A slip of AddContractNode: no contract node for a document without owner.
AddContractNodeIfOwned(g, data) ==
    IF Truthy(data.owner)
    THEN PushNode(g, Node(NodeIdOf("contract", g), contractName(data),
                          "contract", 1,
                          [description |-> "Main smart contract entity",
                           owner |-> data.owner, name |-> data.name]))
    ELSE g

\* The contract node is built and pushed.
AddContractNode(g, data) ==
    PushNode(g, Node(NodeIdOf("contract", g), contractName(data),
                     "contract", 1,
                     [description |-> "Main smart contract entity",
                      owner |-> data.owner, name |-> data.name]))

\* ---- the operations table
Row(key, name, abi, display, inputs, outputs) ==
    [key |-> key, name |-> name, abi |-> abi, display |-> display,
     inputs |-> inputs, outputs |-> outputs]

\* operations.has(key)
MapHas(rows, key) == \E i \in 1..Len(rows) : rows[i].key = key

MapIndex(rows, key) == CHOOSE i \in 1..Len(rows) : rows[i].key = key

\* operations.set(key, row): the row of the key is replaced where it stands,
\* or the row is added at the end.
MapSet(rows, key, row) ==
    IF MapHas(rows, key)
    THEN [rows EXCEPT ![MapIndex(rows, key)] = row]
    ELSE Append(rows, row)

\* `${functionName}(${inputs.map((input) => input.type).join(',') || ''})`
functionSignature(abiFunction) ==
    LET inputs == JsOr(abiFunction.inputs, JsArray(<<>>))
    IN  abiFunction.name \o "("
          \o Join([i \in 1..Len(inputs.items) |-> inputs.items[i].type], ",")
          \o ")"

RECURSIVE CollectAbiAnyType(_, _)
CollectAbiAnyType(rows, entries) ==
    IF entries = <<>> THEN rows
    ELSE LET abiFunction == Head(entries)
         IN  CollectAbiAnyType(
                 MapSet(rows, functionSignature(abiFunction),
                        Row(functionSignature(abiFunction),
                            abiFunction.name, abiFunction, NullFormat,
                            JsOr(abiFunction.inputs, JsArray(<<>>)),
                            JsOr(abiFunction.outputs, JsArray(<<>>)))),
                 Tail(entries))

RECURSIVE CollectAbi(_, _)
\* data.context.contract.abi.forEach: every entry of type function sets its
\* row.
CollectAbi(rows, entries) ==
    IF entries = <<>> THEN rows
    ELSE LET abiFunction == Head(entries)
             next ==
               IF abiFunction.type = "function"
               THEN MapSet(rows, functionSignature(abiFunction),
                           Row(functionSignature(abiFunction),
                               abiFunction.name, abiFunction, NullFormat,
                               JsOr(abiFunction.inputs, JsArray(<<>>)),
                               JsOr(abiFunction.outputs, JsArray(<<>>))))
               ELSE rows
         IN  CollectAbi(next, Tail(entries))

\* if (data.context?.contract?.abi) { abi.forEach(...) }: forEach of a value
\* that is no list is not a function.
AbiPass(g, data) ==
    IF g.threw \/ ~JsTruthy(data.abi) THEN g
    ELSE IF data.abi.kind # "array" THEN Throw(g)
    ELSE [g EXCEPT !.operations = CollectAbi(@, data.abi.items)]

\* Object.entries(v): the entries of a map, the indexed items of a list, the
\* indexed characters of a text, nothing of a number.
ObjectEntries(v) ==
    CASE v.kind = "object" -> v.items
      [] v.kind = "array" ->
           [i \in 1..Len(v.items) |-> Entry(<<ToString(i - 1)>>, v.items[i])]
      [] v.kind = "string" ->
           [i \in 1..Len(v.pieces) |-> Entry(<<ToString(i - 1)>>, CharacterFormat)]
      [] OTHER -> <<>>

\* A slip of MergeDisplay: the format never joins the row of the ABI.
MergeDisplaySeparate(rows, formatName, format) ==
    Append(rows,
           Row(Concat(formatName),
               IF Includes(formatName, <<"(">>)
               THEN Concat(SplitFirst(formatName, "("))
               ELSE Concat(formatName),
               NullAbi, format, JsArray(<<>>), JsArray(<<>>)))

\* One entry of display.formats: the format is put into the row of its key,
\* or a row is made for it, named by the key up to its "(".
MergeDisplay(rows, formatName, format) ==
    IF MapHas(rows, Concat(formatName))
    THEN [rows EXCEPT ![MapIndex(rows, Concat(formatName))].display = format]
    ELSE MapSet(rows, Concat(formatName),
                Row(Concat(formatName),
                    IF Includes(formatName, <<"(">>)
                    THEN Concat(SplitFirst(formatName, "("))
                    ELSE Concat(formatName),
                    NullAbi, format, JsArray(<<>>), JsArray(<<>>)))

RECURSIVE CollectFormats(_, _)
CollectFormats(rows, entries) ==
    IF entries = <<>> THEN rows
    ELSE CollectFormats(MergeDisplay(rows, Head(entries).key, Head(entries).value),
                        Tail(entries))

\* if (data.display?.formats) { Object.entries(...).forEach(...) }
FormatsPass(g, data) ==
    IF g.threw \/ ~JsTruthy(data.formats) THEN g
    ELSE [g EXCEPT
            !.operations = CollectFormats(@, ObjectEntries(data.formats))]

RECURSIVE CollectOperations(_, _)
\* An entry of data.operations makes a row when its key has none.
CollectOperations(rows, entries) ==
    IF entries = <<>> THEN rows
    ELSE LET opName == Concat(Head(entries).key)
             next ==
               IF MapHas(rows, opName) THEN rows
               ELSE MapSet(rows, opName,
                           Row(opName, opName, NullAbi, Head(entries).value,
                               JsArray(<<>>), JsArray(<<>>)))
         IN  CollectOperations(next, Tail(entries))

\* if (data.operations) { Object.entries(...).forEach(...) }
OperationsPass(g, data) ==
    IF g.threw \/ ~JsTruthy(data.operations) THEN g
    ELSE [g EXCEPT
            !.operations = CollectOperations(@, ObjectEntries(data.operations))]

\* ---- operation and field nodes
\* abi?.stateMutability === m
Mutability(abi, m) == abi.kind # "null" /\ abi.stateMutability = m

\* abi?.stateMutability === 'view' || abi?.constant === true
isView(abi) ==
    Mutability(abi, "view") \/ (abi.kind # "null" /\ abi.constant = "true")

\* A slip of hasStateChange: every operation is taken to change state.
hasStateChangeAlways(abi) == TRUE

\* abi?.stateMutability === 'nonpayable' || abi?.stateMutability === 'payable'
\*   || !isView
hasStateChange(abi) ==
    Mutability(abi, "nonpayable") \/ Mutability(abi, "payable") \/ ~isView(abi)

\* abi?.stateMutability === 'view' || abi?.stateMutability === 'pure'
\*   || isConstant
isReadOnly(abi) ==
    \/ Mutability(abi, "view")
    \/ Mutability(abi, "pure")
    \/ (abi.kind # "null" /\ abi.constant = "true")

\* display?.fields?.length || operation.inputs?.length || abi?.inputs?.length
\*   || 0
fieldCount(operation) ==
    IF JsLength(operation.display.fields) # 0
    THEN JsLength(operation.display.fields)
    ELSE IF JsLength(operation.inputs) # 0
    THEN JsLength(operation.inputs)
    ELSE JsLength(operation.abi.inputs)

operationNode(signature, operation, id) ==
    Node(id, operation.name, "operation", 2,
         [description |-> IF Truthy(operation.display.intent)
                          THEN operation.display.intent
                          ELSE "Contract operation",
          format |-> operation.display,
          abi |-> operation.abi,
          fields |-> fieldCount(operation),
          operationType |-> IF Truthy(operation.abi.type)
                            THEN operation.abi.type ELSE "function",
          isPayable |-> (Mutability(operation.abi, "payable")
                           \/ (operation.abi.kind # "null"
                                 /\ operation.abi.payable = "true")),
          isView |-> isView(operation.abi),
          isPure |-> Mutability(operation.abi, "pure"),
          isConstant |-> (operation.abi.kind # "null"
                            /\ operation.abi.constant = "true"),
          hasStateChange |-> hasStateChange(operation.abi),
          isReadOnly |-> isReadOnly(operation.abi),
          stateMutability |-> operation.abi.stateMutability,
          signature |-> signature,
          inputs |-> operation.inputs,
          outputs |-> operation.outputs])

\* field.format || field.type || field.dataType || field.fieldType
\*   || 'unknown', of a field that has at most a format.
fieldType(field) == JsOr(field.format, JsString(<<"unknown">>))

\* field.path || field.jsonPath || '', of a field that has at most a path.
fieldPath(field) == JsOr(field.path, JsString(<<>>))

\* A statement of the field loop raises a TypeError: split of a path, or
\* includes of a path or of a type, that is neither text nor list.
FieldRaises(field) ==
    \/ /\ ~Truthy(field.label)
       /\ field.path.kind \notin {"undefined", "null", "string"}
    \/ fieldPath(field).kind \notin {"string", "array"}
    \/ fieldType(field).kind \notin {"string", "array"}

\* field.label || field.name || field.title || field.path?.split('.').pop()
\*   || 'Unknown Field'
fieldLabel(field) ==
    IF Truthy(field.label) THEN field.label
    ELSE IF field.path.kind = "string"
            /\ Concat(SplitLast(field.path.pieces, ".")) # ""
    THEN Concat(SplitLast(field.path.pieces, "."))
    ELSE "Unknown Field"

\* fieldPath.includes('#.') || fieldPath.includes('input')
\*   || field.input !== false || field.direction !== 'output'
isInput(field) ==
    \/ Includes(fieldPath(field).pieces, <<"#", ".">>)
    \/ Includes(fieldPath(field).pieces, <<"input">>)
    \/ field.input # "false"
    \/ field.direction # "output"

\* fieldPath.includes('output') || fieldPath.includes('return')
\*   || field.output === true || field.direction === 'output'
isOutput(field) ==
    \/ Includes(fieldPath(field).pieces, <<"output">>)
    \/ Includes(fieldPath(field).pieces, <<"return">>)
    \/ field.output = "true"
    \/ field.direction = "output"

\* The type tags, from the text of fieldType.
TypeIs(field, texts) == Concat(fieldType(field).pieces) \in texts

TypeIncludes(field, marker) == Includes(fieldType(field).pieces, <<marker>>)

fieldNode(field, id) ==
    Node(id, fieldLabel(field), "field", 3,
         [description |-> IF isInput(field) THEN "Input field parameter"
                          ELSE "Output field result",
          fieldType |-> Concat(fieldType(field).pieces),
          inputOutput |-> IF isInput(field) THEN "input" ELSE "output",
          path |-> Concat(fieldPath(field).pieces),
          required |-> (field.required # "false" /\ field.optional # "true"),
          isArray |-> (TypeIncludes(field, "array") \/ TypeIncludes(field, "[]")),
          isAddress |-> (TypeIs(field, {"addressName", "address"})
                           \/ TypeIncludes(field, "address")),
          isAmount |-> (TypeIs(field, {"amount", "uint256", "number"})
                          \/ TypeIncludes(field, "uint")),
          isDate |-> (TypeIs(field, {"date", "timestamp"})
                        \/ TypeIncludes(field, "time")),
          isRaw |-> TypeIs(field, {"raw", "bytes", "string"}),
          isDuration |-> (TypeIs(field, {"duration", "time"})
                            \/ TypeIncludes(field, "duration"))])

RECURSIVE AddFields(_, _, _)
\* display.fields.forEach, for the operation node at place op: a field node
\* and a link from the operation to it, until a field raises.
AddFields(g, op, fields) ==
    IF fields = <<>> \/ g.threw THEN g
    ELSE IF FieldRaises(Head(fields)) THEN Throw(g)
    ELSE LET pushed == PushNode(g, fieldNode(Head(fields), NodeIdOf("field", g)))
         IN  AddFields(PushLink(pushed, op, Len(pushed.nodes),
                                IF isInput(Head(fields)) THEN "requires input"
                                ELSE "produces output",
                                "field"),
                       op, Tail(fields))

\* if (display?.fields) { display.fields.forEach(...) }: forEach of a value
\* that is no list is not a function.
FieldsPass(g, op, display) ==
    IF ~JsTruthy(display.fields) THEN g
    ELSE IF display.fields.kind # "array" THEN Throw(g)
    ELSE AddFields(g, op, display.fields.items)

RECURSIVE AddOperations(_, _)
\* Array.from(operations.entries()).forEach: an operation node, a link from
\* the contract node (at place 1) to it, and its fields.
AddOperations(g, rows) ==
    IF rows = <<>> \/ g.threw THEN g
    ELSE LET pushed == PushNode(g, operationNode(Head(rows).key, Head(rows),
                                                 NodeIdOf("operation", g)))
             op == Len(pushed.nodes)
             linked == PushLink(pushed, 1, op, "has operation", "operation")
         IN  AddOperations(FieldsPass(linked, op, Head(rows).display),
                           Tail(rows))

\* ---- deployment nodes
\* text.slice(0, 8) of a text given as its characters.
Slice8(characters) ==
    SubSeq(characters, 1, IF Len(characters) < 8 THEN Len(characters) ELSE 8)

\* `${deployment.chainId || 'Unknown'}:${(deployment.address || '0x...')
\*   .slice(0, 8)}...`
deploymentLabel(deployment) ==
    (IF Truthy(deployment.chainId) THEN deployment.chainId ELSE "Unknown")
      \o ":"
      \o Concat(Slice8(JsOr(deployment.address,
                            JsString(<<"0", "x", ".", ".", ".">>)).pieces))
      \o "..."

deploymentNode(deployment, id) ==
    Node(id, deploymentLabel(deployment), "deployment", 4,
         [description |-> "Blockchain deployment",
          chainId |-> deployment.chainId,
          address |-> deployment.address,
          fullAddress |-> deployment.address])

\* A deployment node and a link from the contract node to it.
AddDeployment(g, deployment) ==
    LET pushed == PushNode(g, deploymentNode(deployment,
                                             NodeIdOf("deployment", g)))
    IN  PushLink(pushed, 1, Len(pushed.nodes), "deployed on", "deployment")

RECURSIVE AddDeployments(_, _)
AddDeployments(g, deployments) ==
    IF deployments = <<>> THEN g
    ELSE AddDeployments(AddDeployment(g, Head(deployments)), Tail(deployments))

\* if (data.context?.contract?.deployments) { deployments.forEach(...) }
DeploymentsPass(g, data) ==
    IF g.threw \/ ~JsTruthy(data.deployments) THEN g
    ELSE IF data.deployments.kind # "array" THEN Throw(g)
    ELSE AddDeployments(g, data.deployments.items)

\* data.context?.contract?.deployments?.some((d) => d.address ===
\*   deployment.address)
InContextDeployments(data, deployment) ==
    /\ data.deployments.kind = "array"
    /\ \E i \in 1..Len(data.deployments.items) :
           data.deployments.items[i].address = deployment.address

RECURSIVE AddTopDeployments(_, _, _)
\* data.deployments.forEach: a node for every deployment whose address is not
\* among those of the context; some of a value that is neither undefined nor
\* a list is not a function.
AddTopDeployments(g, data, deployments) ==
    IF deployments = <<>> \/ g.threw THEN g
    ELSE IF data.deployments.kind \notin {"undefined", "null", "array"}
    THEN Throw(g)
    ELSE AddTopDeployments(
             IF InContextDeployments(data, Head(deployments)) THEN g
             ELSE AddDeployment(g, Head(deployments)),
             data, Tail(deployments))

\* if (data.deployments) { data.deployments.forEach(...) }
TopDeploymentsPass(g, data) ==
    IF g.threw \/ ~JsTruthy(data.topDeployments) THEN g
    ELSE IF data.topDeployments.kind # "array" THEN Throw(g)
    ELSE AddTopDeployments(g, data, data.topDeployments.items)

\* ---- the function
\* The locals when the function returns or raises.
BuildGraph(data) ==
    LET collected ==
          OperationsPass(
              FormatsPass(AbiPass(AddContractNode(NewGraph, data), data), data),
              data)
        operations == AddOperations(collected, collected.operations)
    IN  TopDeploymentsPass(DeploymentsPass(operations, data), data)

\* A slip of createKnowledgeGraphFromERC7730: the formats are taken out of
\* the document once they are merged.
createKnowledgeGraphConsumingFormats(data) ==
    LET g == BuildGraph(data)
    IN  [raised |-> g.threw,
         nodes |-> IF g.threw THEN <<>> ELSE g.nodes,
         links |-> IF g.threw THEN <<>> ELSE g.links,
         data |-> [data EXCEPT !.formats = JsUndefined]]

\* What a call does: it raises, or it returns { nodes, links }; data is the
\* document as the call leaves it, to no member of which it assigns.
createKnowledgeGraphFromERC7730(data) ==
    LET g == BuildGraph(data)
    IN  [raised |-> g.threw,
         nodes |-> IF g.threw THEN <<>> ELSE g.nodes,
         links |-> IF g.threw THEN <<>> ELSE g.links,
         data |-> data]

\* ---- generateKnowledgeGraph
\* The number of graph generations of a page visit.
MaxBuilds == 2

\* useState(null) of knowledgeGraphData, and the graph it is set to.
NullKnowledgeGraphData == [isNull |-> TRUE, nodes |-> <<>>, links |-> <<>>]

KnowledgeGraphDataOf(graphData) ==
    [isNull |-> FALSE, nodes |-> graphData.nodes, links |-> graphData.links]

\* disabled={isGeneratingGraph} of the Generate Knowledge Graph button.
GraphButtonDisabled == isGeneratingGraph

\* generateKnowledgeGraph up to its setTimeout.
generateKnowledgeGraph ==
    /\ ~GraphButtonDisabled
    /\ Len(builds) < MaxBuilds
    /\ isGeneratingGraph' = TRUE
    /\ UNCHANGED <<erc7730, knowledgeGraphData, builds, toast, pipelineVars>>

\* The callback of the setTimeout: the graph is built and kept, or the error
\* is caught; the flag is cleared.
GraphTimeout ==
    /\ isGeneratingGraph
    /\ LET graphData == createKnowledgeGraphFromERC7730(erc7730)
       IN  /\ erc7730' = graphData.data
           /\ builds' = Append(builds, [input |-> erc7730, output |-> graphData])
           /\ IF graphData.raised
              THEN /\ toast' = "Failed to generate knowledge graph"
                   /\ UNCHANGED knowledgeGraphData
              ELSE /\ toast' = "Knowledge graph generated successfully"
                   /\ knowledgeGraphData' = KnowledgeGraphDataOf(graphData)
    /\ isGeneratingGraph' = FALSE
    /\ UNCHANGED pipelineVars

\* -------------------------------------------------------- specification
\* The page is mounted with a finished document: nothing recorded, nothing in
\* flight; the store may retain the document from an earlier session.
Init ==
    /\ erc7730 \in Docs
    /\ env \in Configs
    /\ store \in SUBSET {JSONstringify(erc7730)}
    /\ walletChain \in WalletChains
    /\ txs = <<>>
    /\ isPublishingToWalrus = FALSE
    /\ walrusResult = NullWalrusResult
    /\ walrusCalls = <<>>
    /\ isPublishingToBlockchain = FALSE
    /\ blockchainResult = NullBlockchainResult
    /\ chainCalls = <<>>
    /\ isPublishing = FALSE
    /\ publishResult = NullPublishResult
    /\ kgCalls = <<>>
    /\ entities = 0
    /\ edits = <<>>
    /\ exchanges = <<>>
    /\ kgTxs = <<>>
    /\ toast = Undefined
    /\ clicks = 0
    /\ walrusLog = <<>>
    /\ last = [op |-> "Init", input |-> NoInput]
    /\ isGeneratingGraph = FALSE
    /\ knowledgeGraphData = NullKnowledgeGraphData
    /\ builds = <<>>

Next ==
    \/ ClickPublishToWalrus
    \/ WalrusSettles
    \/ \E hasEthereum \in BOOLEAN : ClickPublishToBlockchain(hasEthereum)
    \/ ChainSettles
    \/ UserSwitchesNetwork
    \/ ClickPublishToKnowledgeGraph
    \/ RouteSteps
    \/ KnowledgeGraphSettles

Spec == Init /\ [][Next]_vars

\* The page is mounted with a document of any shape and the graph is
\* generated; the publish handlers are left alone.
InitBuild ==
    /\ erc7730 \in GraphDocs
    /\ env = [contractAddress |-> "0xC0", chainId |-> "10"]
    /\ store = {}
    /\ walletChain = 1
    /\ txs = <<>>
    /\ isPublishingToWalrus = FALSE
    /\ walrusResult = NullWalrusResult
    /\ walrusCalls = <<>>
    /\ isPublishingToBlockchain = FALSE
    /\ blockchainResult = NullBlockchainResult
    /\ chainCalls = <<>>
    /\ isPublishing = FALSE
    /\ publishResult = NullPublishResult
    /\ kgCalls = <<>>
    /\ entities = 0
    /\ edits = <<>>
    /\ exchanges = <<>>
    /\ kgTxs = <<>>
    /\ toast = Undefined
    /\ clicks = 0
    /\ walrusLog = <<>>
    /\ last = [op |-> "Init", input |-> NoInput]
    /\ isGeneratingGraph = FALSE
    /\ knowledgeGraphData = NullKnowledgeGraphData
    /\ builds = <<>>

NextBuild ==
    \/ generateKnowledgeGraph
    \/ GraphTimeout

SpecBuild == InitBuild /\ [][NextBuild]_vars

\* ---------------------------------------------------------------- claims

\* C1: once Stage 1 has recorded a content identifier, or Stage 2 a
\* transaction hash, no later step removes or replaces that success field.
C1_SuccessFieldsAppendOnly ==
    [][/\ (walrusResult.success /\ walrusResult.blobId # Undefined)
            => (walrusResult'.success /\ walrusResult'.blobId = walrusResult.blobId)
       /\ (blockchainResult.success /\ blockchainResult.txHash # Undefined)
            => (blockchainResult'.success
                /\ blockchainResult'.txHash = blockchainResult.txHash)]_vars

C3_PreconditionFailedWithoutCalls ==
    [][(/\ last'.op = "ClickPublishToBlockchain"
        /\ ~(walrusResult.success /\ Truthy(walrusResult.blobId)))
         => /\ toast' = PublishToWalrusFirst
            /\ UNCHANGED <<chainCalls, txs, blockchainResult,
                           isPublishingToBlockchain, walletChain>>]_vars

\* C3 witness: the handler ran on a Stage 1 success without identifier and
\* refused.
C3_Witness ==
    /\ last.op = "ClickPublishToBlockchain"
    /\ walrusResult.success
    /\ ~Truthy(walrusResult.blobId)
    /\ toast = PublishToWalrusFirst
    /\ chainCalls = <<>>

\* C4: at most one call of each stage is outstanding, and while one is
\* outstanding the stage's flag, which disables its button, is set.
C4_SingleFlightPerStage ==
    /\ Len(walrusCalls) <= 1
    /\ Len(chainCalls) <= 1
    /\ Len(kgCalls) <= 1
    /\ Len(walrusCalls) = 1 => isPublishingToWalrus
    /\ Len(chainCalls) = 1 => isPublishingToBlockchain
    /\ Len(kgCalls) = 1 => isPublishing

\* C4 witness: a stage that already ran once is in flight again, its button
\* disabled.
C4_Witness ==
    /\ Len(walrusCalls) = 1
    /\ WalrusButtonDisabled
    /\ walrusLog # <<>>

\* A step in which a Stage 2 invocation ends in failure: its call ends
\* without a transaction, or the invocation passes the guard and ends before
\* its first wallet request.
Stage2FailureStep ==
    \/ /\ Len(chainCalls') < Len(chainCalls)
       /\ txs' = txs
    \/ /\ last'.op = "ClickPublishToBlockchain"
       /\ clicks' # clicks
       /\ walrusResult.success /\ Truthy(walrusResult.blobId)
       /\ Len(chainCalls') = Len(chainCalls)

\* C5: a failing Stage 2 invocation leaves Stage 1's result and everything
\* but Stage 2's own slot as it was, records the failure in Stage 2's slot,
\* and leaves Stage 2 invocable again on the unchanged Stage 1 result.
C5_Stage2FailureKeepsStage1 ==
    [][Stage2FailureStep
         => /\ UNCHANGED <<walrusResult, isPublishingToWalrus, walrusCalls,
                           publishResult, isPublishing, kgCalls, txs>>
            /\ ~blockchainResult'.isNull
            /\ ~blockchainResult'.success
            /\ Truthy(blockchainResult'.error)
            /\ blockchainResult'.txHash = Undefined
            /\ ~isPublishingToBlockchain'
            /\ walrusResult.success => ~BlockchainButtonDisabled']_vars

\* C5 witness: Stage 2 has just failed at the wallet while Stage 1's
\* identifier is held, and its button is enabled.
C5_Witness ==
    /\ last.op = "ChainSendReturn"
    /\ last.input.kind = "reject"
    /\ Truthy(blockchainResult.error)
    /\ walrusResult.success /\ Truthy(walrusResult.blobId)
    /\ ~BlockchainButtonDisabled

\* C6: the step in which a stage's external call returns clears that stage's
\* flag and leaves in that stage's slot either a success without error or a
\* failure with an error message.
C6_EveryReturnIsRecorded ==
    [][/\ Len(walrusCalls') < Len(walrusCalls)
            => /\ ~isPublishingToWalrus'
               /\ ~walrusResult'.isNull
               /\ walrusResult'.success = ~Truthy(walrusResult'.error)
               /\ UNCHANGED <<blockchainResult, publishResult>>
       /\ Len(chainCalls') < Len(chainCalls)
            => /\ ~isPublishingToBlockchain'
               /\ ~blockchainResult'.isNull
               /\ blockchainResult'.success = ~Truthy(blockchainResult'.error)
               /\ UNCHANGED <<walrusResult, publishResult>>
       /\ Len(kgCalls') < Len(kgCalls)
            => /\ ~isPublishing'
               /\ ~publishResult'.isNull
               /\ publishResult'.success = ~Truthy(publishResult'.error)
               /\ UNCHANGED <<walrusResult, blockchainResult>>]_vars

\* C6 witness: all three stages have returned, one of them with a failure.
C6_Witness ==
    /\ walrusCalls = <<>> /\ chainCalls = <<>> /\ kgCalls = <<>>
    /\ walrusResult.success
    /\ ~blockchainResult.isNull
    /\ Truthy(publishResult.error)

\* A 2xx response whose body has neither success shape.
NeitherShape(resp) ==
    /\ resp.kind = "response" /\ resp.ok
    /\ ~(resp.body.parsable /\ resp.body.nc /\ resp.body.ncBO)
    /\ ~(resp.body.parsable /\ resp.body.ac)

\* C7: after a 2xx response with neither success shape Stage 1 holds a
\* failure without content identifier; when the body parsed, the failure is
\* the "unexpected response structure" error.
C7_NeitherShapeFails ==
    (last.op = "WalrusReturn" /\ NeitherShape(last.input))
      => /\ ~walrusResult.isNull
         /\ ~walrusResult.success
         /\ walrusResult.blobId = Undefined
         /\ Truthy(walrusResult.error)
         /\ last.input.body.parsable
              => walrusResult.error
                   = "Failed to publish to Walrus: " \o UnexpectedStructure

\* C7 witness: a parsed 2xx body with a newlyCreated member but no blobObject
\* was received.
C7_Witness ==
    /\ last.op = "WalrusReturn"
    /\ NeitherShape(last.input)
    /\ last.input.body.nc
    /\ ~walrusResult.success

\* A 2xx response of the already-certified shape: alreadyCertified with
\* blobId, endEpoch and event.txDigest (and no newlyCreated.blobObject).
AlreadyCertifiedShape(resp) ==
    /\ resp.kind = "response" /\ resp.ok /\ resp.body.parsable
    /\ resp.body.ac /\ resp.body.acEvent
    /\ resp.body.acBlobId # Undefined
    /\ resp.body.endEpoch # Undefined /\ resp.body.txDigest # Undefined
    /\ ~(resp.body.nc /\ resp.body.ncBO)

\* C8: after a 2xx response of the already-certified shape Stage 1 holds a
\* success with alreadyCertified true and that body's blobId, and no error.
C8_AlreadyCertifiedIsSuccess ==
    (last.op = "WalrusReturn" /\ AlreadyCertifiedShape(last.input))
      => /\ walrusResult.success
         /\ walrusResult.alreadyCertified = "true"
         /\ walrusResult.blobId = last.input.body.acBlobId
         /\ walrusResult.endEpoch = last.input.body.endEpoch
         /\ walrusResult.txDigest = last.input.body.txDigest
         /\ walrusResult.error = Undefined

\* C8 witness: an already-certified answer was received and recorded.
C8_Witness ==
    /\ last.op = "WalrusReturn"
    /\ AlreadyCertifiedShape(last.input)
    /\ Truthy(walrusResult.blobId)

\* C9: of two submissions of the same payload answered by a store that
\* retained the first, both are recorded as successes with the same content
\* identifier, and the second with alreadyCertified true.
C9_ResubmissionIsIdempotent ==
    \A i, j \in 1..Len(walrusLog) :
        (i < j /\ walrusLog[i].data = walrusLog[j].data)
          => /\ walrusLog[i].success /\ walrusLog[j].success
             /\ Truthy(walrusLog[i].blobId)
             /\ walrusLog[j].blobId = walrusLog[i].blobId
             /\ walrusLog[j].alreadyCertified = "true"

\* C9 witness: the same payload was submitted twice, first as new.
C9_Witness ==
    /\ Len(walrusLog) >= 2
    /\ walrusLog[1].data = walrusLog[2].data
    /\ walrusLog[1].alreadyCertified = "false"
    /\ walrusResult.alreadyCertified = "true"

\* C10: a switch attempt rejected with code 4902 ends Stage 2 with the
\* "network not configured" error, which no other switch rejection yields,
\* and the call ends there without a transaction.
C10_UnknownNetworkIsDistinct ==
    [][(last'.op = "ChainSwitchReturn" /\ last'.input.kind = "reject")
         => /\ Len(chainCalls') < Len(chainCalls)
            /\ txs' = txs
            /\ ~blockchainResult'.success
            /\ ~isPublishingToBlockchain'
            /\ (last'.input.code = ChainNotAdded)
                 = (blockchainResult'.error
                      = NetworkNotConfigured(ParseInt(env.chainId)))]_vars

\* C10 witness: the wallet was on another chain, the switch was rejected with
\* 4902 and the "not configured" error is recorded.
C10_Witness ==
    /\ last.op = "ChainSwitchReturn"
    /\ last.input.code = ChainNotAdded
    /\ walletChain # ParseInt(env.chainId)
    /\ blockchainResult.error = NetworkNotConfigured(ParseInt(env.chainId))
    /\ txs = <<>>

\* The optional 0x prefix of a key removed.
WithoutPrefix(chars) ==
    IF Len(chars) >= 2 /\ chars[1] = "0" /\ chars[2] = "x"
    THEN SubSeq(chars, 3, Len(chars))
    ELSE chars

\* A signing key that is present and, its optional 0x prefix removed, is
\* exactly 64 hexadecimal characters.
WellFormedKey(key) ==
    /\ key.present
    /\ Len(WithoutPrefix(key.chars)) = 64
    /\ \A i \in 1..Len(WithoutPrefix(key.chars)) :
           WithoutPrefix(key.chars)[i] \in HexCharacters

\* C11: a Stage 3 request that meets a missing or malformed signing key is
\* answered with an error before any external effect (no edit published, no
\* calldata requested, no transaction submitted, no content reference held),
\* and every error answer ends the invocation as a recorded stage failure.
C11_BadKeyFailsBeforeEffects ==
    [][/\ (last'.op = "RouteValidates" /\ ~WellFormedKey(last'.input))
            => /\ UNCHANGED <<edits, exchanges, kgTxs>>
               /\ Len(kgCalls') = Len(kgCalls)
               /\ \A i \in 1..Len(kgCalls') :
                      /\ kgCalls'[i].pc = "respond"
                      /\ ~kgCalls'[i].response.ok
                      /\ Truthy(kgCalls'[i].response.error)
                      /\ kgCalls'[i].cid = Undefined
       /\ (last'.op = "KnowledgeGraphReturn" /\ ~last'.input.ok)
            => /\ ~publishResult'.isNull
               /\ ~publishResult'.success
               /\ Truthy(publishResult'.error)
               /\ ~isPublishing'
               /\ UNCHANGED <<edits, exchanges, kgTxs>>]_vars

\* C11 witness: the route met a key of 63 hexadecimal characters and answered
\* with the format error; nothing was ever published, exchanged or submitted.
C11_Witness ==
    /\ last.op = "RouteValidates"
    /\ last.input.present
    /\ Len(last.input.chars) = 63
    /\ Len(kgCalls) = 1
    /\ kgCalls[1].response.error = InvalidPrivateKeyFormat
    /\ edits = <<>> /\ exchanges = <<>> /\ kgTxs = <<>>

\* C12: an edit is published for a document only when every edit published
\* for it before has been submitted in a transaction: a retry after partial
\* progress does not publish the edit a second time.
C12_EditPublishedOnce ==
    \A j, k \in 1..Len(edits) :
        (j < k /\ edits[j].data = edits[k].data)
          => \E t \in 1..Len(kgTxs) : kgTxs[t].cid = edits[j].cid

\* C20: every transaction Stage 2 has sent was sent on the configured target
\* chain.
C20_TransactionsOnTargetChain ==
    \A t \in 1..Len(txs) : txs[t].chain = ParseInt(env.chainId)


\* ------------------------------------------------------- claims: the builder
\* The graphs of the calls that returned.
Returned == {builds[i].output : i \in {j \in 1..Len(builds) : ~builds[j].output.raised}}

NodesOfKind(graph, kind) ==
    {k \in 1..Len(graph.nodes) : graph.nodes[k].type = kind}

\* C13: every graph the builder returns, for whatever document, has exactly
\* one node of kind contract, and so has the graph the page keeps.
C13_ExactlyOneContractNode ==
    /\ \A graph \in Returned : Cardinality(NodesOfKind(graph, "contract")) = 1
    /\ ~knowledgeGraphData.isNull
         => Cardinality(NodesOfKind(knowledgeGraphData, "contract")) = 1

\* C13 witness: a graph with several operations and a deployment was built
\* for a document without owner.
C13_Witness ==
    /\ ~knowledgeGraphData.isNull
    /\ erc7730.owner = Undefined
    /\ Cardinality(NodesOfKind(knowledgeGraphData, "operation")) >= 2
    /\ NodesOfKind(knowledgeGraphData, "deployment") # {}

\* The function entries of the ABI and the entries of display.formats of a
\* document whose abi is a list and whose formats are a map.
AbiFunctions(data) ==
    IF data.abi.kind # "array" THEN {}
    ELSE {data.abi.items[i] :
            i \in {j \in 1..Len(data.abi.items) :
                     data.abi.items[j].type = "function"}}

FormatEntries(data) ==
    IF data.formats.kind # "object" THEN {}
    ELSE {data.formats.items[i] : i \in 1..Len(data.formats.items)}

\* The signature name(type1,type2,...) of an ABI function entry.
SignatureOf(f) ==
    f.name \o "("
      \o Join([i \in 1..Len(f.inputs.items) |-> f.inputs.items[i].type], ",")
      \o ")"

\* C14: when an ABI function entry and a display-format entry have the same
\* signature, a returned graph has exactly one operation node of that
\* signature, and that node carries the ABI entry and the display format.
C14_MatchingSignaturesMerge ==
    \A i \in 1..Len(builds) :
        ~builds[i].output.raised =>
            \A f \in AbiFunctions(builds[i].input) :
                \A e \in FormatEntries(builds[i].input) :
                    Concat(e.key) = SignatureOf(f) =>
                        LET graph == builds[i].output
                            ns == {k \in NodesOfKind(graph, "operation") :
                                     graph.nodes[k].details.signature
                                       = SignatureOf(f)}
                        IN  /\ Cardinality(ns) = 1
                            /\ \A k \in ns :
                                 /\ graph.nodes[k].details.abi
                                      \in AbiFunctions(builds[i].input)
                                 /\ SignatureOf(graph.nodes[k].details.abi)
                                      = SignatureOf(f)
                                 /\ graph.nodes[k].details.format = e.value
                                 /\ graph.nodes[k].label = f.name

\* C14 witness: balanceOf(address) is in the ABI and in display.formats, next
\* to other operations, and the graph has its one node with both.
C14_Witness ==
    /\ ~knowledgeGraphData.isNull
    /\ balanceOf \in AbiFunctions(erc7730)
    /\ \E e \in FormatEntries(erc7730) : e.key = balanceOfKey
    /\ Cardinality(NodesOfKind(knowledgeGraphData, "operation")) >= 2
    /\ \E k \in NodesOfKind(knowledgeGraphData, "operation") :
           /\ knowledgeGraphData.nodes[k].details.abi = balanceOf
           /\ knowledgeGraphData.nodes[k].details.format.kind = "object"

\* The nodes of a graph that have the identifier id.
NodesWithId(graph, id) ==
    {k \in 1..Len(graph.nodes) : graph.nodes[k].id = id}

KindOfId(graph, id) ==
    graph.nodes[CHOOSE k \in NodesWithId(graph, id) : TRUE].type

RECURSIVE ReachableIn(_, _, _)
\* The identifiers reached from those of S along at most n more links.
ReachableIn(graph, S, n) ==
    IF n = 0 THEN S
    ELSE ReachableIn(graph,
                     S \cup {graph.links[k].target :
                               k \in {j \in 1..Len(graph.links) :
                                        graph.links[j].source \in S}},
                     n - 1)

\* No node is reached from itself along one or more links.
Acyclic(graph) ==
    \A k \in 1..Len(graph.nodes) :
        graph.nodes[k].id \notin
            ReachableIn(graph,
                        {graph.links[j].target :
                           j \in {m \in 1..Len(graph.links) :
                                    graph.links[m].source = graph.nodes[k].id}},
                        Len(graph.nodes))

\* C15: in every returned graph each end of each link is the identifier of
\* exactly one node of the graph, each link goes from the contract to an
\* operation, from an operation to a field or from the contract to a
\* deployment, and no node is reached from itself.
C15_LinksWellFormed ==
    \A graph \in Returned :
        /\ \A j \in 1..Len(graph.links) :
             /\ Cardinality(NodesWithId(graph, graph.links[j].source)) = 1
             /\ Cardinality(NodesWithId(graph, graph.links[j].target)) = 1
             /\ <<KindOfId(graph, graph.links[j].source),
                  KindOfId(graph, graph.links[j].target)>>
                  \in {<<"contract", "operation">>, <<"operation", "field">>,
                       <<"contract", "deployment">>}
        /\ Acyclic(graph)

\* C15 witness: a returned graph has links of all three kinds.
C15_Witness ==
    \E graph \in Returned :
        \A kind \in {"operation", "field", "deployment"} :
            \E j \in 1..Len(graph.links) : graph.links[j].type = kind

\* C16: no call of the builder raises.
C16_BuilderNeverRaises ==
    \A i \in 1..Len(builds) : ~builds[i].output.raised

\* The document of the end-to-end scenario: balanceOf(address), of view
\* mutability, in the ABI and in display.formats with one address field; no
\* other operation, no deployment.
BalanceOfScenario(data) ==
    /\ data.abi = JsArray(<<balanceOf>>)
    /\ data.formats
         = JsObject(<<Entry(balanceOfKey,
                            Format("Balance", JsArray(<<ownerField>>)))>>)
    /\ data.operations = JsUndefined
    /\ data.deployments \in {JsUndefined, JsArray(<<>>)}
    /\ data.topDeployments = JsUndefined

\* C17: the builder returns for the scenario's document the nodes contract,
\* operation, field and the links contract -> operation, operation -> field;
\* the operation is read-only and changes no state, the field is an address
\* input.
C17_BalanceOfScenario ==
    \A i \in 1..Len(builds) :
        BalanceOfScenario(builds[i].input) =>
            LET graph == builds[i].output
            IN  /\ ~graph.raised
                /\ Len(graph.nodes) = 3
                /\ graph.nodes[1].type = "contract"
                /\ graph.nodes[2].type = "operation"
                /\ graph.nodes[2].label = "balanceOf"
                /\ graph.nodes[3].type = "field"
                /\ Len(graph.links) = 2
                /\ graph.links[1].source = graph.nodes[1].id
                /\ graph.links[1].target = graph.nodes[2].id
                /\ graph.links[2].source = graph.nodes[2].id
                /\ graph.links[2].target = graph.nodes[3].id
                /\ graph.nodes[2].details.isReadOnly
                /\ ~graph.nodes[2].details.hasStateChange
                /\ graph.nodes[3].details.isAddress
                /\ graph.nodes[3].details.inputOutput = "input"

\* C17 witness: the scenario's document was built.
C17_Witness ==
    /\ BalanceOfScenario(erc7730)
    /\ ~knowledgeGraphData.isNull
    /\ Len(knowledgeGraphData.nodes) = 3

\* A document with no ABI function, no display format, no operation and no
\* deployment: each of the collections is absent or empty.
NothingToShow(data) ==
    /\ data.abi.kind \in {"undefined", "array"}
    /\ AbiFunctions(data) = {}
    /\ data.formats \in {JsUndefined, JsObject(<<>>)}
    /\ data.operations = JsUndefined
    /\ data.deployments \in {JsUndefined, JsArray(<<>>)}
    /\ data.topDeployments = JsUndefined

\* C18: for a document with no operation and no deployment the builder
\* returns the contract node alone, and no link.
C18_EmptyDocumentContractOnly ==
    \A i \in 1..Len(builds) :
        NothingToShow(builds[i].input) =>
            /\ ~builds[i].output.raised
            /\ Len(builds[i].output.nodes) = 1
            /\ builds[i].output.nodes[1].type = "contract"
            /\ builds[i].output.nodes[1].connections = 0
            /\ builds[i].output.links = <<>>

\* C18 witness: a document whose ABI has an event only, with an empty map of
\* formats and an empty list of deployments, was built.
C18_Witness ==
    /\ erc7730.abi = JsArray(<<TransferEvent>>)
    /\ erc7730.formats = JsObject(<<>>)
    /\ erc7730.deployments = JsArray(<<>>)
    /\ NothingToShow(erc7730)
    /\ ~knowledgeGraphData.isNull
    /\ Len(knowledgeGraphData.nodes) = 1

\* The place of the node with identifier id.
PlaceOfId(graph, id) == CHOOSE k \in 1..Len(graph.nodes) : graph.nodes[k].id = id

\* What a call did, with node identifiers replaced by the places of the
\* nodes.
Renamed(graph) ==
    [raised |-> graph.raised,
     nodes |-> [k \in 1..Len(graph.nodes) |->
                  [label |-> graph.nodes[k].label, type |-> graph.nodes[k].type,
                   group |-> graph.nodes[k].group,
                   details |-> graph.nodes[k].details,
                   connections |-> graph.nodes[k].connections]],
     links |-> [j \in 1..Len(graph.links) |->
                  [source |-> PlaceOfId(graph, graph.links[j].source),
                   target |-> PlaceOfId(graph, graph.links[j].target),
                   label |-> graph.links[j].label,
                   type |-> graph.links[j].type]]]

C21_OneStageInFlight ==
    ~(walrusCalls # <<>> /\ chainCalls # <<>>)

\* C22: a Stage 1 result recorded as a success carries a content identifier
\* that is defined and not empty.
C22_SuccessHasContentIdentifier ==
    walrusResult.success => Truthy(walrusResult.blobId)

\* C23: while a Stage 2 success is held, the Stage 1 result held is a success
\* whose content identifier is the one the transaction of that success
\* anchored.
C23_AnchorPairedWithItsIdentifier ==
    blockchainResult.success =>
        /\ txs # <<>>
        /\ walrusResult.success
        /\ walrusResult.blobId = txs[Len(txs)].blobId

\* ------------------------------------------- claims: the builder's details
RECURSIVE StripNames(_, _)
\* The pieces of a display key without the names of its parameters: what
\* follows a blank is dropped up to the next "," or ")".
StripNames(pieces, skipping) ==
    IF pieces = <<>> THEN <<>>
    ELSE IF Head(pieces) \in {",", ")"}
    THEN <<Head(pieces)>> \o StripNames(Tail(pieces), FALSE)
    ELSE IF Head(pieces) = " " \/ skipping
    THEN StripNames(Tail(pieces), TRUE)
    ELSE <<Head(pieces)>> \o StripNames(Tail(pieces), FALSE)

\* The signature name(type,type,...) a display key stands for.
NormalizedSignature(key) == Concat(StripNames(key, FALSE))

\* The signatures of the operations of a document, from its ABI functions
\* and from its display keys that have a parameter list.
SignaturesOf(data) ==
    {SignatureOf(f) : f \in AbiFunctions(data)}
      \cup {NormalizedSignature(e.key) :
              e \in {x \in FormatEntries(data) : Includes(x.key, <<"(">>)}}

\* The texts under which the document names the operation of a signature.
SpellingsOf(data, signature) ==
    {SignatureOf(f) : f \in {x \in AbiFunctions(data) : SignatureOf(x) = signature}}
      \cup {Concat(e.key) :
              e \in {x \in FormatEntries(data) :
                       /\ Includes(x.key, <<"(">>)
                       /\ NormalizedSignature(x.key) = signature}}

\* C24: a returned graph has one operation node for each signature
\* name(type,type,...) of its document, however the display keys spell it.
C24_OneNodePerSignature ==
    \A i \in 1..Len(builds) :
        ~builds[i].output.raised =>
            \A signature \in SignaturesOf(builds[i].input) :
                Cardinality(
                    {k \in NodesOfKind(builds[i].output, "operation") :
                       builds[i].output.nodes[k].details.signature
                         \in SpellingsOf(builds[i].input, signature)}) = 1

\* The fields of the display formats of a document.
DisplayFields(data) ==
    UNION {{e.value.fields.items[j] : j \in 1..Len(e.value.fields.items)} :
             e \in {x \in FormatEntries(data) : x.value.fields.kind = "array"}}

\* The direction the markers of a field tell: output when the path contains
\* "output" or "return", or output is true, or direction is 'output'.
MarkedOutput(field) ==
    \/ /\ field.path.kind = "string"
       /\ \/ Includes(field.path.pieces, <<"output">>)
          \/ Includes(field.path.pieces, <<"return">>)
    \/ field.output = "true"
    \/ field.direction = "output"

\* C25: the node of a display field, and the label of the link to it, say
\* output when the field's path or markers tell an output, input otherwise.
C25_DirectionFollowsMarkers ==
    \A graph \in {builds[i] : i \in {j \in 1..Len(builds) : ~builds[j].output.raised}} :
        \A field \in {f \in DisplayFields(graph.input) :
                        Truthy(f.label) /\ f.path.kind = "string"} :
            \A k \in NodesOfKind(graph.output, "field") :
                (/\ graph.output.nodes[k].label = field.label
                 /\ graph.output.nodes[k].details.path = Concat(field.path.pieces))
                  => /\ graph.output.nodes[k].details.inputOutput
                          = IF MarkedOutput(field) THEN "output" ELSE "input"
                     /\ \A j \in 1..Len(graph.output.links) :
                          graph.output.links[j].target = graph.output.nodes[k].id
                            => graph.output.links[j].label
                                 = IF MarkedOutput(field) THEN "produces output"
                                   ELSE "requires input"

\* The ABI entry of an operation tells it reads only: its mutability is view
\* or pure, or its legacy constant flag is set.
ReadOnlyByAbi(abi) ==
    /\ abi.kind # "null"
    /\ \/ abi.stateMutability \in {"view", "pure"}
       \/ abi.constant = "true"

\* C26: every operation node is read-only and not state-changing when its
\* ABI entry tells it reads only, and state-changing and not read-only
\* otherwise, an operation without ABI entry included.
C26_ReadOnlyOrStateChange ==
    \A graph \in Returned :
        \A k \in NodesOfKind(graph, "operation") :
            /\ graph.nodes[k].details.isReadOnly
                 = ReadOnlyByAbi(graph.nodes[k].details.abi)
            /\ graph.nodes[k].details.hasStateChange
                 = ~ReadOnlyByAbi(graph.nodes[k].details.abi)

\* The addresses of the deployments of a document, from both lists.
DeploymentAddresses(data) ==
    (IF data.deployments.kind = "array"
     THEN {data.deployments.items[i].address :
             i \in 1..Len(data.deployments.items)}
     ELSE {})
      \cup (IF data.topDeployments.kind = "array"
            THEN {data.topDeployments.items[i].address :
                    i \in 1..Len(data.topDeployments.items)}
            ELSE {})

\* C27: a returned graph has exactly one deployment node for each address
\* among the deployments of its document.
C27_OneNodePerAddress ==
    \A i \in 1..Len(builds) :
        ~builds[i].output.raised =>
            \A address \in DeploymentAddresses(builds[i].input) :
                Cardinality(
                    {k \in NodesOfKind(builds[i].output, "deployment") :
                       builds[i].output.nodes[k].details.address = address}) = 1

\* C28: the label of the contract node is the first non-empty one of the
\* owner, the name of the metadata, the top-level name and the name of the
\* contract in the context, in this order, and "Contract" when all are empty.
C28_LabelByPriority ==
    \A i \in 1..Len(builds) :
        ~builds[i].output.raised =>
            LET data == builds[i].input
                label ==
                  builds[i].output.nodes[
                      CHOOSE k \in NodesOfKind(builds[i].output, "contract") : TRUE].label
            IN  label = IF Truthy(data.owner) THEN data.owner
                        ELSE IF Truthy(data.name) THEN data.name
                        ELSE IF Truthy(data.topName) THEN data.topName
                        ELSE IF Truthy(data.contractName) THEN data.contractName
                        ELSE "Contract"

\* The number of inputs of the ABI entry of an operation, 0 without entry or
\* without list of inputs.
AbiInputCount(abi) ==
    IF abi.kind # "null" /\ abi.inputs.kind = "array"
    THEN Len(abi.inputs.items) ELSE 0

\* C29: the field count of an operation node is the length of the field list
\* of its display format when the format has one, empty or not; otherwise
\* the number of inputs of its ABI entry; otherwise 0.
C29_FieldCount ==
    \A graph \in Returned :
        \A k \in NodesOfKind(graph, "operation") :
            graph.nodes[k].details.fields
              = IF /\ graph.nodes[k].details.format.kind = "object"
                   /\ graph.nodes[k].details.format.fields.kind = "array"
                THEN Len(graph.nodes[k].details.format.fields.items)
                ELSE AbiInputCount(graph.nodes[k].details.abi)

\* The places of a node's identifier among the ends of the links.
EndpointsAt(graph, id) ==
    {<<j, end>> \in (1..Len(graph.links)) \X {"source", "target"} :
        IF end = "source" THEN graph.links[j].source = id
        ELSE graph.links[j].target = id}

RECURSIVE SumOfConnections(_, _)
SumOfConnections(nodes, n) ==
    IF n = 0 THEN 0 ELSE nodes[n].connections + SumOfConnections(nodes, n - 1)

\* C30: in every returned graph the connection count of each node is the
\* number of link ends that name it, and the counts add up to twice the
\* number of links.
C30_ConnectionsCountEndpoints ==
    \A graph \in Returned :
        /\ \A k \in 1..Len(graph.nodes) :
             graph.nodes[k].connections
               = Cardinality(EndpointsAt(graph, graph.nodes[k].id))
        /\ SumOfConnections(graph.nodes, Len(graph.nodes)) = 2 * Len(graph.links)

\* C30 witness: a returned graph with operations, fields and deployments,
\* whose contract node has four links or more.
C30_Witness ==
    /\ ~knowledgeGraphData.isNull
    /\ Len(knowledgeGraphData.links) >= 6
    /\ knowledgeGraphData.nodes[1].connections >= 4
    /\ \A kind \in {"operation", "field", "deployment"} :
           NodesOfKind(knowledgeGraphData, kind) # {}

====
